---- MODULE Spec2Model ----
(***************************************************************************)
(* Term/type tables with hash-consing, the simplifying constructors of     *)
(* term_api.c, and the skolemizer of exists_forall/ef_skolemize.c.         *)
(*                                                                         *)
(* A term reference is 2*index + polarity (low bit set: negated).  The     *)
(* file term_api.c tests "term_kind(tbl, x) == NOT_TERM" and uses          *)
(* not_term / not_term_arg; these are read through the polarity encoding:  *)
(* a reference has kind NOT_TERM iff its polarity bit is set, and          *)
(* not_term / not_term_arg flip that bit.                                  *)
(***************************************************************************)
EXTENDS Integers, Sequences, FiniteSets, TLC

\* types, terms, error: the global tables and error report of term_api.c
\* buffers: the bit-vector arithmetic buffers allocated by the client
\* sk: the skolemizer object of ef_skolemize.c
\* last: the call that has just returned (operation, arguments, result)
\* fails: codes of the failed calls since the error report was last cleared
\* ncalls: number of calls made so far
\* ef: the value table of the exists/forall solver
VARIABLES types, terms, error, buffers, sk, ef, last, fails, ncalls

vars == <<types, terms, error, buffers, sk, ef, last, fails, ncalls>>

(***************************************************************************)
(* Bounds of the model                                                     *)
(***************************************************************************)
\* calls explored after the initial table
MaxCalls == 2
\* largest arity tried for n-ary constructors
MaxArgs == 3
\* YICES_MAX_ARITY and YICES_MAX_VARS scaled down so that the limits are hit
YICES_MAX_ARITY == 3
YICES_MAX_VARS == 2
YICES_MAX_BVSIZE == 2
\* buffers allocated at most
MaxBuffers == 1

(***************************************************************************)
(* Sentinels and predefined handles                                        *)
(***************************************************************************)
NULL_TYPE == -1
NULL_TERM == -1
bool_id == 0
int_id == 1
real_id == 2
\* index of the boolean constant: true_term = pos_term(1), false_term = neg
bool_const == 1

(***************************************************************************)
(* Generic helpers                                                         *)
(***************************************************************************)
Range(s) == {s[i] : i \in 1..Len(s)}

Min(S) == CHOOSE x \in S : \A y \in S : x <= y

RECURSIVE SortSet(_)
SortSet(S) == IF S = {} THEN <<>> ELSE <<Min(S)>> \o SortSet(S \ {Min(S)})

\* insertion of x in a sorted sequence (duplicates kept)
RECURSIVE Insert(_, _)
Insert(x, s) ==
  IF s = <<>> THEN <<x>>
  ELSE IF x <= Head(s) THEN <<x>> \o s
  ELSE <<Head(s)>> \o Insert(x, Tail(s))

\* int_array_sort: increasing order, duplicates kept
RECURSIVE int_array_sort(_)
int_array_sort(a) ==
  IF a = <<>> THEN <<>> ELSE Insert(Head(a), int_array_sort(Tail(a)))

\* all sequences over S of length lo..hi
SeqsOf(S, lo, hi) == UNION {[1..n -> S] : n \in lo..hi}

(***************************************************************************)
(* Type table                                                              *)
(***************************************************************************)
TDesc(k, sz, el, rg) == [kind |-> k, size |-> sz, elem |-> el, range |-> rg]

init_type_table ==
  << TDesc("BOOL_TYPE", 0, <<>>, NULL_TYPE),
     TDesc("INT_TYPE", 0, <<>>, NULL_TYPE),
     TDesc("REAL_TYPE", 0, <<>>, NULL_TYPE) >>

bad_type(tys, tau) == tau < 0 \/ tau >= Len(tys)

type_kind(tys, tau) == tys[tau + 1].kind

\* hash-consing of a type descriptor: [tbl, r]
hcons_type(tys, d) ==
  IF \E i \in 1..Len(tys) : tys[i] = d
  THEN [tbl |-> tys, r |-> (CHOOSE i \in 1..Len(tys) : tys[i] = d) - 1]
  ELSE [tbl |-> Append(tys, d), r |-> Len(tys)]

bv_type(tys, size) == hcons_type(tys, TDesc("BITVECTOR_TYPE", size, <<>>, NULL_TYPE))

tuple_type(tys, n, elem) == hcons_type(tys, TDesc("TUPLE_TYPE", n, elem, NULL_TYPE))

function_type(tys, range, n, dom) ==
  hcons_type(tys, TDesc("FUNCTION_TYPE", n, dom, range))

\* fresh types: never shared
new_uninterpreted_type(tys) ==
  [tbl |-> Append(tys, TDesc("UNINTERPRETED_TYPE", Len(tys), <<>>, NULL_TYPE)),
   r |-> Len(tys)]

new_scalar_type(tys, card) ==
  [tbl |-> Append(tys, TDesc("SCALAR_TYPE", card, <<Len(tys)>>, NULL_TYPE)),
   r |-> Len(tys)]

scalar_type_cardinal(tys, tau) == tys[tau + 1].size

is_subtype(tys, tau, sigma) == tau = sigma \/ (tau = int_id /\ sigma = real_id)

super_type(tys, tau, sigma) ==
  IF tau = sigma THEN tau
  ELSE IF {tau, sigma} = {int_id, real_id} THEN real_id
  ELSE NULL_TYPE

compatible_types(tys, tau, sigma) == super_type(tys, tau, sigma) # NULL_TYPE

(***************************************************************************)
(* Term table                                                              *)
(***************************************************************************)
Desc(k, ty, a) == [kind |-> k, type |-> ty, args |-> a]

init_term_table == << Desc("CONSTANT_TERM", bool_id, <<0>>) >>

pos_term(i) == 2 * i
index_of(t) == t \div 2
is_neg_term(t) == t % 2 = 1
is_pos_term(t) == t % 2 = 0
opposite_term(t) == IF t % 2 = 0 THEN t + 1 ELSE t - 1
unsigned_term(t) == 2 * (t \div 2)

true_term == pos_term(bool_const)
false_term == opposite_term(true_term)

term_type(tbl, t) == tbl[index_of(t)].type
is_boolean_term(tbl, t) == term_type(tbl, t) = bool_id
is_arithmetic_term(tbl, t) == term_type(tbl, t) \in {int_id, real_id}

\* kind of the index, whatever the polarity (ef_skolemize.c)
index_kind(tbl, t) == tbl[index_of(t)].kind

\* kind as term_api.c sees it: a negated reference is a NOT_TERM
term_kind(tbl, x) == IF is_neg_term(x) THEN "NOT_TERM" ELSE tbl[index_of(x)].kind

not_term(x) == opposite_term(x)
not_term_arg(x) == opposite_term(x)

term_args(tbl, t) == tbl[index_of(t)].args

bad_term(tbl, t) ==
  \/ t < 0
  \/ index_of(t) < 1
  \/ index_of(t) > Len(tbl)
  \/ (is_neg_term(t) /\ tbl[index_of(t)].type # bool_id)

\* hash-consing of a term descriptor: [tbl, r]
hcons(tbl, d) ==
  IF \E i \in 1..Len(tbl) : tbl[i] = d
  THEN [tbl |-> tbl, r |-> pos_term(CHOOSE i \in 1..Len(tbl) : tbl[i] = d)]
  ELSE [tbl |-> Append(tbl, d), r |-> pos_term(Len(tbl) + 1)]

constant_term(tbl, tau, i) == hcons(tbl, Desc("CONSTANT_TERM", tau, <<i>>))
variable(tbl, tau, i) == hcons(tbl, Desc("VARIABLE", tau, <<i>>))

\* fresh term: a new index at every call
new_uninterpreted_term(tbl, tau) ==
  [tbl |-> Append(tbl, Desc("UNINTERPRETED_TERM", tau, <<Len(tbl) + 1>>)),
   r |-> pos_term(Len(tbl) + 1)]

or_term(tbl, n, a) == hcons(tbl, Desc("OR_TERM", bool_id, a))
eq_term(tbl, x, y) == hcons(tbl, Desc("EQ_TERM", bool_id, <<x, y>>))
bveq_atom(tbl, x, y) == hcons(tbl, Desc("BV_EQ_ATOM", bool_id, <<x, y>>))
ite_term(tbl, c, t, e, tau) == hcons(tbl, Desc("ITE_TERM", tau, <<c, t, e>>))
distinct_term(tbl, n, a) == hcons(tbl, Desc("DISTINCT_TERM", bool_id, a))
forall_term(tbl, n, v, body) == hcons(tbl, Desc("FORALL_TERM", bool_id, Append(v, body)))
app_term(tbl, f, n, a, tau) == hcons(tbl, Desc("APP_TERM", tau, <<f>> \o a))

\* result of a constructor that allocates nothing
Ret(tbl, x) == [tbl |-> tbl, r |-> x]

\* negate the reference returned by a constructor
Neg(res) == [tbl |-> res.tbl, r |-> not_term(res.r)]

\* the two references in increasing order
SortedPair(x, y) == IF x < y THEN <<x, y>> ELSE <<y, x>>

\* sort_bool_terms: increasing order of references, so that x and (not x)
\* are adjacent and true_term, false_term come first
sort_bool_terms(a) == int_array_sort(a)

(***************************************************************************)
(* Boolean-term constructors (term_api.c)                                  *)
(***************************************************************************)
bool_negate(tbl, x) ==
  IF term_kind(tbl, x) = "NOT_TERM" THEN not_term_arg(x) ELSE not_term(x)

mk_not(tbl, x) ==
  IF x = true_term THEN false_term
  ELSE IF x = false_term THEN true_term
  ELSE bool_negate(tbl, x)

opposite_bool_terms(tbl, x, y) ==
  \/ (term_kind(tbl, x) = "NOT_TERM" /\ not_term_arg(x) = y)
  \/ (term_kind(tbl, y) = "NOT_TERM" /\ not_term_arg(y) = x)

mk_binary_or(tbl, x, y) ==
  IF x = y THEN Ret(tbl, x)
  ELSE IF x = true_term THEN Ret(tbl, x)
  ELSE IF y = true_term THEN Ret(tbl, y)
  ELSE IF x = false_term THEN Ret(tbl, y)
  ELSE IF y = false_term THEN Ret(tbl, x)
  ELSE IF opposite_bool_terms(tbl, x, y) THEN Ret(tbl, true_term)
  ELSE or_term(tbl, 2, SortedPair(x, y))

mk_binary_and(tbl, x, y) ==
  IF x = y THEN Ret(tbl, x)
  ELSE IF x = true_term THEN Ret(tbl, y)
  ELSE IF y = true_term THEN Ret(tbl, x)
  ELSE IF x = false_term THEN Ret(tbl, x)
  ELSE IF y = false_term THEN Ret(tbl, y)
  ELSE IF opposite_bool_terms(tbl, x, y) THEN Ret(tbl, false_term)
  ELSE Neg(or_term(tbl, 2, SortedPair(bool_negate(tbl, x), bool_negate(tbl, y))))

not_bool_var(tbl, x) ==
  /\ term_kind(tbl, x) = "NOT_TERM"
  /\ term_kind(tbl, not_term_arg(x)) = "UNINTERPRETED_TERM"

\* the variant compiled in (the #else branch): negate stays false
mk_iff(tbl, x, y) ==
  IF x = y THEN Ret(tbl, true_term)
  ELSE IF x = true_term THEN Ret(tbl, y)
  ELSE IF y = true_term THEN Ret(tbl, x)
  ELSE IF x = false_term THEN Ret(tbl, mk_not(tbl, y))
  ELSE IF y = false_term THEN Ret(tbl, mk_not(tbl, x))
  ELSE IF opposite_bool_terms(tbl, x, y) THEN Ret(tbl, false_term)
  ELSE LET flip == \/ (term_kind(tbl, x) = "NOT_TERM" /\ term_kind(tbl, y) = "NOT_TERM")
                   \/ not_bool_var(tbl, x)
                   \/ not_bool_var(tbl, y)
           x1 == IF flip THEN mk_not(tbl, x) ELSE x
           y1 == IF flip THEN mk_not(tbl, y) ELSE y
           p == SortedPair(x1, y1)
       IN eq_term(tbl, p[1], p[2])

mk_xor(tbl, x, y) ==
  IF x = y THEN Ret(tbl, false_term)
  ELSE IF x = false_term THEN Ret(tbl, y)
  ELSE IF y = false_term THEN Ret(tbl, x)
  ELSE IF x = true_term THEN Ret(tbl, mk_not(tbl, y))
  ELSE IF y = true_term THEN Ret(tbl, mk_not(tbl, x))
  ELSE IF opposite_bool_terms(tbl, x, y) THEN Ret(tbl, true_term)
  ELSE LET nx == term_kind(tbl, x) = "NOT_TERM"
           ny == term_kind(tbl, y) = "NOT_TERM"
           x1 == IF nx THEN not_term_arg(x) ELSE x
           y1 == IF ny THEN not_term_arg(y) ELSE y
           negate == (nx = ny)
           p == SortedPair(x1, y1)
           aux == eq_term(tbl, p[1], p[2])
       IN IF negate THEN Neg(aux) ELSE aux

\* variant: (implies x (not x)) is rewritten to x
mk_implies_keep(tbl, x, y) ==
  IF x = y THEN Ret(tbl, true_term)
  ELSE IF x = true_term THEN Ret(tbl, y)
  ELSE IF x = false_term THEN Ret(tbl, true_term)
  ELSE IF y = true_term THEN Ret(tbl, true_term)
  ELSE IF y = false_term THEN Ret(tbl, bool_negate(tbl, x))
  ELSE IF opposite_bool_terms(tbl, x, y) THEN Ret(tbl, x)
  ELSE or_term(tbl, 2, SortedPair(bool_negate(tbl, x), y))

mk_implies(tbl, x, y) ==
  IF x = y THEN Ret(tbl, true_term)
  ELSE IF x = true_term THEN Ret(tbl, y)
  ELSE IF x = false_term THEN Ret(tbl, true_term)
  ELSE IF y = true_term THEN Ret(tbl, true_term)
  ELSE IF y = false_term THEN Ret(tbl, bool_negate(tbl, x))
  ELSE IF opposite_bool_terms(tbl, x, y) THEN Ret(tbl, y)
  ELSE or_term(tbl, 2, SortedPair(bool_negate(tbl, x), y))

mk_bveq_ite(tbl, c, x, y, z) ==
  LET ite == ite_term(tbl, c, y, z, term_type(tbl, y))
      p == SortedPair(x, ite.r)
  IN bveq_atom(ite.tbl, p[1], p[2])

mk_lifted_ite_bveq(tbl, c, t, e) ==
  LET eq1 == term_args(tbl, t)
      eq2 == term_args(tbl, e)
  IN IF eq1[1] = eq2[1] THEN mk_bveq_ite(tbl, c, eq1[1], eq1[2], eq2[2])
     ELSE IF eq1[1] = eq2[2] THEN mk_bveq_ite(tbl, c, eq1[1], eq1[2], eq2[1])
     ELSE IF eq1[2] = eq2[1] THEN mk_bveq_ite(tbl, c, eq1[2], eq1[1], eq2[2])
     ELSE IF eq1[2] = eq2[2] THEN mk_bveq_ite(tbl, c, eq1[2], eq1[1], eq2[1])
     ELSE ite_term(tbl, c, t, e, bool_id)

mk_bool_ite(tbl, c, t, e) ==
  IF t = e THEN Ret(tbl, t)
  ELSE IF c = true_term THEN Ret(tbl, t)
  ELSE IF c = false_term THEN Ret(tbl, e)
  ELSE IF opposite_bool_terms(tbl, t, e) THEN mk_iff(tbl, c, t)
  ELSE IF c = t THEN mk_binary_or(tbl, c, e)
  ELSE IF c = e THEN mk_binary_and(tbl, c, t)
  ELSE IF opposite_bool_terms(tbl, c, t) THEN mk_binary_and(tbl, t, e)
  ELSE IF opposite_bool_terms(tbl, c, e) THEN mk_binary_or(tbl, t, e)
  ELSE IF t = true_term THEN mk_binary_or(tbl, c, e)
  ELSE IF e = false_term THEN mk_binary_and(tbl, c, t)
  ELSE IF t = false_term THEN mk_binary_and(tbl, mk_not(tbl, c), e)
  ELSE IF e = true_term THEN mk_binary_or(tbl, mk_not(tbl, c), t)
  ELSE LET sw == term_kind(tbl, c) = "NOT_TERM"
           c1 == IF sw THEN not_term_arg(c) ELSE c
           t1 == IF sw THEN e ELSE t
           e1 == IF sw THEN t ELSE e
       IN IF term_kind(tbl, t1) = "BV_EQ_ATOM" /\ term_kind(tbl, e1) = "BV_EQ_ATOM"
          THEN mk_lifted_ite_bveq(tbl, c1, t1, e1)
          ELSE ite_term(tbl, c1, t1, e1, bool_id)

\* the loop of mk_or / mk_and over the sorted array: absorbing is the
\* constant that decides the result; st = [hit, x, out]
RECURSIVE scan_bool_args(_, _, _, _, _)
scan_bool_args(tbl, a, i, absorbing, st) ==
  IF i > Len(a) \/ st.hit THEN st
  ELSE LET y == a[i]
       IN IF st.x # y
          THEN IF y = absorbing \/ opposite_bool_terms(tbl, st.x, y)
               THEN [st EXCEPT !.hit = TRUE]
               ELSE scan_bool_args(tbl, a, i + 1, absorbing,
                                   [hit |-> FALSE, x |-> y, out |-> Append(st.out, y)])
          ELSE scan_bool_args(tbl, a, i + 1, absorbing, st)

mk_or(tbl, n, arg) ==
  LET a == sort_bool_terms(arg)
      x == a[1]
  IN IF x = true_term THEN Ret(tbl, true_term)
     ELSE LET st0 == [hit |-> FALSE, x |-> x,
                      out |-> IF x # false_term THEN <<x>> ELSE <<>>]
              st == scan_bool_args(tbl, a, 2, true_term, st0)
          IN IF st.hit THEN Ret(tbl, true_term)
             ELSE IF Len(st.out) <= 1 THEN Ret(tbl, st.x)
             ELSE or_term(tbl, Len(st.out), st.out)

\* variant: the array is not sorted first
mk_and_unsorted(tbl, n, arg) ==
  LET a == arg
      x == a[1]
  IN IF x = false_term THEN Ret(tbl, false_term)
     ELSE LET st0 == [hit |-> FALSE, x |-> x,
                      out |-> IF x # true_term THEN <<x>> ELSE <<>>]
              st == scan_bool_args(tbl, a, 2, false_term, st0)
          IN IF st.hit THEN Ret(tbl, false_term)
             ELSE IF Len(st.out) <= 1 THEN Ret(tbl, st.x)
             ELSE Neg(or_term(tbl, Len(st.out),
                              [i \in 1..Len(st.out) |-> bool_negate(tbl, st.out[i])]))

mk_and(tbl, n, arg) ==
  LET a == sort_bool_terms(arg)
      x == a[1]
  IN IF x = false_term THEN Ret(tbl, false_term)
     ELSE LET st0 == [hit |-> FALSE, x |-> x,
                      out |-> IF x # true_term THEN <<x>> ELSE <<>>]
              st == scan_bool_args(tbl, a, 2, false_term, st0)
          IN IF st.hit THEN Ret(tbl, false_term)
             ELSE IF Len(st.out) <= 1 THEN Ret(tbl, st.x)
             ELSE Neg(or_term(tbl, Len(st.out),
                              [i \in 1..Len(st.out) |-> bool_negate(tbl, st.out[i])]))

(***************************************************************************)
(* Error report and type checking (term_api.c)                             *)
(* g = [types, terms, error] is the global state of the API.  Every check  *)
(* returns [ok, e]: e is the error report after the check.                 *)
(***************************************************************************)
init_error ==
  [code |-> "NO_ERROR", term1 |-> 0, type1 |-> 0, term2 |-> 0, type2 |-> 0,
   badval |-> 0, index |-> 0]

Pass(g) == [ok |-> TRUE, e |-> g.error]
Bad(e) == [ok |-> FALSE, e |-> e]
AndThen(a, b) == IF a.ok THEN b ELSE a

\* smallest position (1-based) of a satisfying P, 0 if none
FirstPos(a, P(_)) ==
  IF \E i \in 1..Len(a) : P(a[i])
  THEN CHOOSE i \in 1..Len(a) : P(a[i]) /\ \A j \in 1..(i - 1) : ~P(a[j])
  ELSE 0

check_positive(g, n) ==
  IF n = 0
  THEN Bad([g.error EXCEPT !.code = "POS_INT_REQUIRED", !.badval = n])
  ELSE Pass(g)

check_nonneg(g, n) ==
  IF n < 0
  THEN Bad([g.error EXCEPT !.code = "NONNEG_INT_REQUIRED", !.badval = n])
  ELSE Pass(g)

check_arity(g, n) ==
  IF n > YICES_MAX_ARITY
  THEN Bad([g.error EXCEPT !.code = "TOO_MANY_ARGUMENTS", !.badval = n])
  ELSE Pass(g)

check_maxvars(g, n) ==
  IF n > YICES_MAX_VARS
  THEN Bad([g.error EXCEPT !.code = "TOO_MANY_VARS", !.badval = n])
  ELSE Pass(g)

check_maxbvsize(g, n) ==
  IF n > YICES_MAX_BVSIZE
  THEN Bad([g.error EXCEPT !.code = "MAX_BVSIZE_EXCEEDED", !.badval = n])
  ELSE Pass(g)

check_good_type(g, tau) ==
  IF bad_type(g.types, tau)
  THEN Bad([g.error EXCEPT !.code = "INVALID_TYPE", !.type1 = tau, !.index = -1])
  ELSE Pass(g)

check_good_types(g, n, a) ==
  LET BadTy(x) == bad_type(g.types, x)
      i == FirstPos(a, BadTy)
  IN IF i # 0
     THEN Bad([g.error EXCEPT !.code = "INVALID_TYPE", !.type1 = a[i], !.index = i - 1])
     ELSE Pass(g)

check_good_constant(g, tau, i) ==
  IF bad_type(g.types, tau)
  THEN Bad([g.error EXCEPT !.code = "INVALID_TYPE", !.type1 = tau, !.index = -1])
  ELSE IF type_kind(g.types, tau) \notin {"UNINTERPRETED_TYPE", "SCALAR_TYPE"}
  THEN Bad([g.error EXCEPT !.code = "SCALAR_OR_UTYPE_REQUIRED", !.type1 = tau])
  ELSE IF i < 0 \/ (type_kind(g.types, tau) = "SCALAR_TYPE"
                    /\ i >= scalar_type_cardinal(g.types, tau))
  THEN Bad([g.error EXCEPT !.code = "INVALID_CONSTANT_INDEX", !.type1 = tau, !.badval = i])
  ELSE Pass(g)

\* variant: the report keeps the first error recorded since it was cleared
check_good_term_latch(g, t) ==
  IF bad_term(g.terms, t)
  THEN Bad(IF g.error.code = "NO_ERROR"
           THEN [g.error EXCEPT !.code = "INVALID_TERM", !.term1 = t, !.index = -1]
           ELSE g.error)
  ELSE Pass(g)

check_good_term(g, t) ==
  IF bad_term(g.terms, t)
  THEN Bad([g.error EXCEPT !.code = "INVALID_TERM", !.term1 = t, !.index = -1])
  ELSE Pass(g)

check_good_terms(g, n, a) ==
  LET BadTm(x) == bad_term(g.terms, x)
      i == FirstPos(a, BadTm)
  IN IF i # 0
     THEN Bad([g.error EXCEPT !.code = "INVALID_TERM", !.term1 = a[i], !.index = i - 1])
     ELSE Pass(g)

check_arg_types(g, n, a, tau) ==
  IF \E i \in 1..n : ~is_subtype(g.types, term_type(g.terms, a[i]), tau[i])
  THEN LET i == CHOOSE k \in 1..n :
                  /\ ~is_subtype(g.types, term_type(g.terms, a[k]), tau[k])
                  /\ \A j \in 1..(k - 1) :
                        is_subtype(g.types, term_type(g.terms, a[j]), tau[j])
       IN Bad([g.error EXCEPT !.code = "TYPE_MISMATCH", !.term1 = a[i],
                              !.type1 = tau[i], !.index = i - 1])
  ELSE Pass(g)

is_function_term(g, f) == type_kind(g.types, term_type(g.terms, f)) = "FUNCTION_TYPE"

function_type_desc(g, f) == g.types[term_type(g.terms, f) + 1]

check_good_application(g, f, n, a) ==
  LET c1 == AndThen(check_positive(g, n),
            AndThen(check_good_term(g, f), check_good_terms(g, n, a)))
  IN IF ~c1.ok THEN c1
     ELSE IF ~is_function_term(g, f)
     THEN Bad([g.error EXCEPT !.code = "FUNCTION_REQUIRED", !.term1 = f])
     ELSE IF n # function_type_desc(g, f).size
     THEN Bad([g.error EXCEPT !.code = "WRONG_NUMBER_OF_ARGUMENTS",
                              !.type1 = term_type(g.terms, f), !.badval = n])
     ELSE check_arg_types(g, n, a, function_type_desc(g, f).elem)

check_boolean_term(g, t) ==
  IF ~is_boolean_term(g.terms, t)
  THEN Bad([g.error EXCEPT !.code = "TYPE_MISMATCH", !.term1 = t,
                           !.type1 = bool_id, !.index = -1])
  ELSE Pass(g)

is_bitvector_term(g, t) == type_kind(g.types, term_type(g.terms, t)) = "BITVECTOR_TYPE"

check_bitvector_term(g, t) ==
  IF ~is_bitvector_term(g, t)
  THEN Bad([g.error EXCEPT !.code = "BITVECTOR_REQUIRED", !.term1 = t])
  ELSE Pass(g)

check_compatible_terms(g, t1, t2) ==
  LET tau1 == term_type(g.terms, t1)
      tau2 == term_type(g.terms, t2)
  IN IF ~compatible_types(g.types, tau1, tau2)
     THEN Bad([g.error EXCEPT !.code = "INCOMPATIBLE_TYPES", !.term1 = t1,
                              !.type1 = tau1, !.term2 = t2, !.type2 = tau2])
     ELSE Pass(g)

check_good_eq(g, t1, t2) ==
  AndThen(check_good_term(g, t1),
  AndThen(check_good_term(g, t2), check_compatible_terms(g, t1, t2)))

check_compatible_bv_terms(g, t1, t2) ==
  AndThen(check_good_term(g, t1),
  AndThen(check_good_term(g, t2),
  AndThen(check_bitvector_term(g, t1),
  AndThen(check_bitvector_term(g, t2), check_compatible_terms(g, t1, t2)))))

check_boolean_args(g, n, a) ==
  LET NotBool(x) == ~is_boolean_term(g.terms, x)
      i == FirstPos(a, NotBool)
  IN IF i # 0
     THEN Bad([g.error EXCEPT !.code = "TYPE_MISMATCH", !.term1 = a[i],
                              !.type1 = bool_id, !.index = i - 1])
     ELSE Pass(g)

\* super type of a[1..i], NULL_TYPE as soon as two types are incompatible
RECURSIVE distinct_super(_, _, _)
distinct_super(g, a, i) ==
  IF i = 1 THEN term_type(g.terms, a[1])
  ELSE LET tau == distinct_super(g, a, i - 1)
       IN IF tau = NULL_TYPE THEN NULL_TYPE
          ELSE super_type(g.types, tau, term_type(g.terms, a[i]))

check_good_distinct_term(g, n, a) ==
  LET c1 == AndThen(check_positive(g, n),
            AndThen(check_arity(g, n), check_good_terms(g, n, a)))
  IN IF ~c1.ok THEN c1
     ELSE IF \E i \in 2..n : distinct_super(g, a, i) = NULL_TYPE
     THEN LET i == CHOOSE k \in 2..n : /\ distinct_super(g, a, k) = NULL_TYPE
                                       /\ distinct_super(g, a, k - 1) # NULL_TYPE
          IN Bad([g.error EXCEPT !.code = "INCOMPATIBLE_TYPES",
                                 !.term1 = a[1], !.type1 = term_type(g.terms, a[1]),
                                 !.term2 = a[i], !.type2 = term_type(g.terms, a[i])])
     ELSE Pass(g)

\* v must be sorted
check_good_quantified_term(g, n, v, body) ==
  LET c1 == AndThen(check_positive(g, n),
            AndThen(check_maxvars(g, n),
            AndThen(check_good_term(g, body),
            AndThen(check_good_terms(g, n, v), check_boolean_term(g, body)))))
      NotVar(x) == term_kind(g.terms, x) # "VARIABLE"
      i == FirstPos(v, NotVar)
  IN IF ~c1.ok THEN c1
     ELSE IF i # 0
     THEN Bad([g.error EXCEPT !.code = "VARIABLE_REQUIRED", !.term1 = v[i], !.index = i - 1])
     ELSE IF \E k \in 2..n : v[k - 1] = v[k]
     THEN LET k == CHOOSE k \in 2..n : v[k - 1] = v[k] /\ \A j \in 2..(k - 1) : v[j - 1] # v[j]
          IN Bad([g.error EXCEPT !.code = "DUPLICATE_VARIABLE", !.term1 = v[k], !.index = k - 1])
     ELSE Pass(g)

(***************************************************************************)
(* Results of the API functions: [types, terms, error, r]                  *)
(***************************************************************************)
\* failed call: the tables are those of g, the error report is c.e
FailTerm(g, c) == [types |-> g.types, terms |-> g.terms, error |-> c.e, r |-> NULL_TERM]
FailType(g, c) == [types |-> g.types, terms |-> g.terms, error |-> c.e, r |-> NULL_TYPE]
\* successful call that returns the term res.r of the table res.tbl
OkTerm(g, res) == [types |-> g.types, terms |-> res.tbl, error |-> g.error, r |-> res.r]
OkType(g, res) == [types |-> res.tbl, terms |-> g.terms, error |-> g.error, r |-> res.r]

(***************************************************************************)
(* Type constructors (term_api.c)                                          *)
(***************************************************************************)
yices_bv_type(g, size) ==
  LET c == AndThen(check_positive(g, size), check_maxbvsize(g, size))
  IN IF ~c.ok THEN FailType(g, c) ELSE OkType(g, bv_type(g.types, size))

yices_new_uninterpreted_type(g) == OkType(g, new_uninterpreted_type(g.types))

yices_new_scalar_type(g, card) ==
  LET c == check_positive(g, card)
  IN IF ~c.ok THEN FailType(g, c) ELSE OkType(g, new_scalar_type(g.types, card))

yices_tuple_type(g, n, elem) ==
  LET c == AndThen(check_positive(g, n),
           AndThen(check_arity(g, n), check_good_types(g, n, elem)))
  IN IF ~c.ok THEN FailType(g, c) ELSE OkType(g, tuple_type(g.types, n, elem))

yices_function_type(g, n, dom, range) ==
  LET c == AndThen(check_positive(g, n),
           AndThen(check_arity(g, n),
           AndThen(check_good_type(g, range), check_good_types(g, n, dom))))
  IN IF ~c.ok THEN FailType(g, c) ELSE OkType(g, function_type(g.types, range, n, dom))

(***************************************************************************)
(* Bit-vector arithmetic buffers (term_api.c)                              *)
(* A buffer is [size, poly]: poly is the set of monomials [coeff, pp] of a *)
(* polynomial with coefficients modulo 2^size; pp is the sorted sequence   *)
(* of the bit-vector variables of the power product.                       *)
(***************************************************************************)
YICES_MAX_DEGREE == 2

RECURSIVE Pow2(_)
Pow2(n) == IF n = 0 THEN 1 ELSE 2 * Pow2(n - 1)

check_maxdegree(g, d) ==
  IF d > YICES_MAX_DEGREE
  THEN Bad([g.error EXCEPT !.code = "DEGREE_OVERFLOW", !.badval = d])
  ELSE Pass(g)

term_bitsize(g, t) == g.types[term_type(g.terms, t) + 1].size

check_bitsize(g, t, n) ==
  IF term_bitsize(g, t) # n
  THEN Bad([g.error EXCEPT !.code = "INCOMPATIBLE_BVSIZES", !.badval = term_bitsize(g, t)])
  ELSE Pass(g)

bvarith_buffer_prepare(n) == [size |-> n, poly |-> {}]

bvarith_buffer_degree(b) ==
  IF b.poly = {} THEN 0
  ELSE CHOOSE d \in {Len(m.pp) : m \in b.poly} : \A m \in b.poly : Len(m.pp) <= d

check_bvarith_buffer_degree(g, b) == check_maxdegree(g, bvarith_buffer_degree(b))

\* coefficient of the power product pp in poly
CoeffOf(poly, pp) ==
  IF \E m \in poly : m.pp = pp THEN (CHOOSE m \in poly : m.pp = pp).coeff ELSE 0

\* poly + c * pp, coefficients modulo 2^size, zero monomials removed
AddMono(poly, size, c, pp) ==
  LET k == (CoeffOf(poly, pp) + c) % Pow2(size)
      rest == {m \in poly : m.pp # pp}
  IN IF k = 0 THEN rest ELSE rest \cup {[coeff |-> k, pp |-> pp]}

bvarith_buffer_add_var(b, x) == [b EXCEPT !.poly = AddMono(b.poly, b.size, 1, <<x>>)]

RECURSIVE SumMonos(_, _, _)
SumMonos(S, size, acc) ==
  IF S = {} THEN acc
  ELSE LET m == CHOOSE m \in S : TRUE
       IN SumMonos(S \ {m}, size, AddMono(acc, size, m.coeff, m.pp))

bvarith_buffer_mul_var(b, x) ==
  [b EXCEPT !.poly = SumMonos({[coeff |-> m.coeff, pp |-> Insert(x, m.pp)] : m \in b.poly},
                              b.size, {})]

\* results of the buffer operations: [buffers, error, r], r = 0 or -1
yices_new_bvarith_buffer(bufs, n) == Append(bufs, bvarith_buffer_prepare(n))

check_bv_operand(g, b, t) ==
  AndThen(check_good_term(g, t),
  AndThen(check_bitvector_term(g, t), check_bitsize(g, t, b.size)))

\* the terms of the model are bit-vector variables: default branch of the switch
\* variant: the term is added before its bitsize is compared with the buffer's
yices_bvarith_add_term_eager(g, bufs, i, t) ==
  LET c0 == AndThen(check_good_term(g, t), check_bitvector_term(g, t))
      c == check_bv_operand(g, bufs[i], t)
      added == IF c0.ok THEN [bufs EXCEPT ![i] = bvarith_buffer_add_var(bufs[i], t)] ELSE bufs
  IN IF ~c.ok THEN [buffers |-> added, error |-> c.e, r |-> -1]
     ELSE [buffers |-> added, error |-> g.error, r |-> 0]

yices_bvarith_add_term(g, bufs, i, t) ==
  LET c == check_bv_operand(g, bufs[i], t)
  IN IF ~c.ok THEN [buffers |-> bufs, error |-> c.e, r |-> -1]
     ELSE [buffers |-> [bufs EXCEPT ![i] = bvarith_buffer_add_var(bufs[i], t)],
           error |-> g.error, r |-> 0]

yices_bvarith_mul_term(g, bufs, i, t) ==
  LET c == AndThen(check_bv_operand(g, bufs[i], t),
                   check_bvarith_buffer_degree(g, bufs[i]))
  IN IF ~c.ok THEN [buffers |-> bufs, error |-> c.e, r |-> -1]
     ELSE [buffers |-> [bufs EXCEPT ![i] = bvarith_buffer_mul_var(bufs[i], t)],
           error |-> g.error, r |-> 0]

(***************************************************************************)
(* Arithmetic (term_api.c)                                                 *)
(* A polynomial is the set of its monomials [coeff, pp], with non-zero     *)
(* integer coefficients; pp is the sorted sequence of the arithmetic       *)
(* variables of the power product, <<>> for the constant monomial.  The    *)
(* arithmetic variable of a term that is not a polynomial is the term.     *)
(* An arithmetic buffer is [poly].                                         *)
(***************************************************************************)
Mono(c, pp) == [coeff |-> c, pp |-> pp]

RECURSIVE MergePP(_, _)
MergePP(a, b) == IF b = <<>> THEN a ELSE MergePP(Insert(b[1], a), Tail(b))

\* p + s * q
PolyAdd(p, q, s) ==
  LET pps == {m.pp : m \in p \cup q}
  IN {Mono(CoeffOf(p, pp) + s * CoeffOf(q, pp), pp)
        : pp \in {u \in pps : CoeffOf(p, u) + s * CoeffOf(q, u) # 0}}

RECURSIVE SumProducts(_)
SumProducts(S) ==
  IF S = {} THEN 0
  ELSE LET e == CHOOSE e \in S : TRUE
       IN e[1].coeff * e[2].coeff + SumProducts(S \ {e})

\* p * q
PolyMul(p, q) ==
  LET pairs == p \X q
      pps == {MergePP(e[1].pp, e[2].pp) : e \in pairs}
      coeff(pp) == SumProducts({e \in pairs : MergePP(e[1].pp, e[2].pp) = pp})
  IN {Mono(coeff(pp), pp) : pp \in {u \in pps : coeff(u) # 0}}

PolyDegree(p) ==
  IF p = {} THEN 0
  ELSE CHOOSE d \in {Len(m.pp) : m \in p} : \A m \in p : Len(m.pp) <= d

arith_buffer_reset == [poly |-> {}]

arith_buffer_degree(b) == PolyDegree(b.poly)

arith_buffer_add_var(b, x) == [poly |-> PolyAdd(b.poly, {Mono(1, <<x>>)}, 1)]
arith_buffer_sub_var(b, x) == [poly |-> PolyAdd(b.poly, {Mono(1, <<x>>)}, -1)]
arith_buffer_mul_var(b, x) == [poly |-> PolyMul(b.poly, {Mono(1, <<x>>)})]
arith_buffer_add_monarray(b, p) == [poly |-> PolyAdd(b.poly, p, 1)]
arith_buffer_sub_monarray(b, p) == [poly |-> PolyAdd(b.poly, p, -1)]
arith_buffer_mul_monarray(b, p) == [poly |-> PolyMul(b.poly, p)]
arith_buffer_mul_buffer(b, b1) == [poly |-> PolyMul(b.poly, b1.poly)]
arith_buffer_square(b) == [poly |-> PolyMul(b.poly, b.poly)]
arith_buffer_add_const(b, a) == [poly |-> PolyAdd(b.poly, {Mono(a, <<>>)}, 1)]

arith_term_desc(tbl, t) == term_args(tbl, t)[1]

get_arithmetic_variable(tbl, t) == t

\* the degree of a term: of its polynomial, or 1
term_degree(tbl, t) ==
  IF term_kind(tbl, t) = "ARITH_TERM" THEN PolyDegree(arith_term_desc(tbl, t)) ELSE 1

\* the polynomial term for b, hash-consed; it is an integer when all its
\* variables are
arith_term(tbl, b) ==
  LET xs == UNION {Range(m.pp) : m \in b.poly}
      tau == IF \A x \in xs : term_type(tbl, x) = int_id THEN int_id ELSE real_id
  IN hcons(tbl, Desc("ARITH_TERM", tau, <<b.poly>>))

check_arith_term(g, t) ==
  IF ~is_arithmetic_term(g.terms, t)
  THEN Bad([g.error EXCEPT !.code = "ARITHTERM_REQUIRED", !.term1 = t])
  ELSE Pass(g)

check_both_arith_terms(g, t1, t2) ==
  AndThen(check_good_term(g, t1),
  AndThen(check_good_term(g, t2),
  AndThen(check_arith_term(g, t1), check_arith_term(g, t2))))

check_arith_buffer_degree(g, b) == check_maxdegree(g, arith_buffer_degree(b))

check_term_degree(g, t) == check_maxdegree(g, term_degree(g.terms, t))

check_arith_term_degree(g, t) == check_term_degree(g, t)

check_poly_degree(g, p) == check_maxdegree(g, PolyDegree(p))

\* variant: a polynomial term is built in every case
yices_arith_term_poly(tbl, b) == arith_term(tbl, b)

\* b reduced to one primitive variable with coefficient one is that
\* variable's term
yices_arith_term(tbl, b) ==
  IF \E m \in b.poly : b.poly = {m} /\ m.coeff = 1 /\ Len(m.pp) = 1
  THEN Ret(tbl, (CHOOSE m \in b.poly : TRUE).pp[1])
  ELSE arith_term(tbl, b)

yices_arith_constant(g, a) ==
  OkTerm(g, yices_arith_term(g.terms, arith_buffer_add_const(arith_buffer_reset, a)))

arith_add(tbl, b, t) ==
  IF term_kind(tbl, t) = "ARITH_TERM"
  THEN arith_buffer_add_monarray(b, arith_term_desc(tbl, t))
  ELSE arith_buffer_add_var(b, get_arithmetic_variable(tbl, t))

arith_sub(tbl, b, t) ==
  IF term_kind(tbl, t) = "ARITH_TERM"
  THEN arith_buffer_sub_monarray(b, arith_term_desc(tbl, t))
  ELSE arith_buffer_sub_var(b, get_arithmetic_variable(tbl, t))

arith_mul(tbl, b, t) ==
  IF term_kind(tbl, t) = "ARITH_TERM"
  THEN arith_buffer_mul_monarray(b, arith_term_desc(tbl, t))
  ELSE arith_buffer_mul_var(b, get_arithmetic_variable(tbl, t))

arith_set_square(tbl, b, t) ==
  IF term_kind(tbl, t) = "ARITH_TERM"
  THEN arith_buffer_mul_monarray(arith_buffer_add_monarray(b, arith_term_desc(tbl, t)),
                                 arith_term_desc(tbl, t))
  ELSE arith_buffer_mul_var(arith_buffer_add_var(b, get_arithmetic_variable(tbl, t)),
                            get_arithmetic_variable(tbl, t))

yices_add(g, t1, t2) ==
  LET c == check_both_arith_terms(g, t1, t2)
  IN IF ~c.ok THEN FailTerm(g, c)
     ELSE OkTerm(g, yices_arith_term(g.terms,
                       arith_add(g.terms, arith_add(g.terms, arith_buffer_reset, t1), t2)))

yices_sub(g, t1, t2) ==
  LET c == check_both_arith_terms(g, t1, t2)
  IN IF ~c.ok THEN FailTerm(g, c)
     ELSE OkTerm(g, yices_arith_term(g.terms,
                       arith_sub(g.terms, arith_add(g.terms, arith_buffer_reset, t1), t2)))

yices_neg(g, t1) ==
  LET c == AndThen(check_good_term(g, t1), check_arith_term(g, t1))
  IN IF ~c.ok THEN FailTerm(g, c)
     ELSE OkTerm(g, yices_arith_term(g.terms, arith_sub(g.terms, arith_buffer_reset, t1)))

yices_mul(g, t1, t2) ==
  LET c == AndThen(check_both_arith_terms(g, t1, t2),
           AndThen(check_arith_term_degree(g, t1), check_arith_term_degree(g, t2)))
  IN IF ~c.ok THEN FailTerm(g, c)
     ELSE OkTerm(g, yices_arith_term(g.terms,
                       arith_mul(g.terms, arith_add(g.terms, arith_buffer_reset, t1), t2)))

yices_square(g, t1) ==
  LET c == AndThen(check_good_term(g, t1),
           AndThen(check_arith_term(g, t1), check_arith_term_degree(g, t1)))
  IN IF ~c.ok THEN FailTerm(g, c)
     ELSE OkTerm(g, yices_arith_term(g.terms,
                       arith_set_square(g.terms, arith_buffer_reset, t1)))

\* the operations on arithmetic buffers: [types, terms, error, buffers, r]
BufRes(g, bufs, e, r) ==
  [types |-> g.types, terms |-> g.terms, error |-> e, buffers |-> bufs, r |-> r]

yices_new_arith_buffer(g) ==
  BufRes(g, Append(g.buffers, arith_buffer_reset), g.error, Len(g.buffers) + 1)

yices_arith_add_term(g, i, t) ==
  LET c == AndThen(check_good_term(g, t), check_arith_term(g, t))
  IN IF ~c.ok THEN BufRes(g, g.buffers, c.e, -1)
     ELSE BufRes(g, [g.buffers EXCEPT ![i] = arith_add(g.terms, @, t)], g.error, 0)

yices_arith_mul_buffer(g, i, j) ==
  LET c == AndThen(check_arith_buffer_degree(g, g.buffers[i]),
                   check_arith_buffer_degree(g, g.buffers[j]))
  IN IF ~c.ok THEN BufRes(g, g.buffers, c.e, -1)
     ELSE IF i = j
     THEN BufRes(g, [g.buffers EXCEPT ![i] = arith_buffer_square(@)], g.error, 0)
     ELSE BufRes(g, [g.buffers EXCEPT ![i] = arith_buffer_mul_buffer(@, g.buffers[j])],
                 g.error, 0)

yices_arith_mul_term(g, i, t) ==
  LET c == AndThen(check_good_term(g, t),
           AndThen(check_arith_term(g, t), check_arith_buffer_degree(g, g.buffers[i])))
      cp == check_poly_degree(g, arith_term_desc(g.terms, t))
  IN IF ~c.ok THEN BufRes(g, g.buffers, c.e, -1)
     ELSE IF term_kind(g.terms, t) = "ARITH_TERM" /\ ~cp.ok
     THEN BufRes(g, g.buffers, cp.e, -1)
     ELSE BufRes(g, [g.buffers EXCEPT ![i] = arith_mul(g.terms, @, t)], g.error, 0)

yices_arith_square(g, i) ==
  LET c == check_arith_buffer_degree(g, g.buffers[i])
  IN IF ~c.ok THEN BufRes(g, g.buffers, c.e, -1)
     ELSE BufRes(g, [g.buffers EXCEPT ![i] = arith_buffer_square(@)], g.error, 0)

\* yices_arith_term on an allocated buffer: the buffer is reset
yices_arith_buffer_term(g, i) ==
  LET res == yices_arith_term(g.terms, g.buffers[i])
  IN [types |-> g.types, terms |-> res.tbl, error |-> g.error,
      buffers |-> [g.buffers EXCEPT ![i] = arith_buffer_reset], r |-> res.r]

\* b is a constant (the monomial of the empty power product, or nothing)
arith_buffer_is_constant(b) == \A m \in b.poly : m.pp = <<>>

arith_buffer_is_zero(b) == b.poly = {}

arith_buffer_is_nonzero(b) == b.poly # {} /\ arith_buffer_is_constant(b)

\* b is a.x - a.y for two primitive variables x and y
arith_buffer_is_equality(b) ==
  \E m1 \in b.poly, m2 \in b.poly :
     /\ b.poly = {m1, m2}
     /\ m1 # m2
     /\ Len(m1.pp) = 1
     /\ Len(m2.pp) = 1
     /\ m1.coeff + m2.coeff = 0

arith_bineq_atom(tbl, left, right) ==
  hcons(tbl, Desc("ARITH_BINEQ_ATOM", bool_id, <<left, right>>))

arith_eq_atom(tbl, b) == hcons(tbl, Desc("ARITH_EQ_ATOM", bool_id, <<b.poly>>))

yices_arith_eq0_atom(tbl, b) ==
  IF arith_buffer_is_zero(b) THEN Ret(tbl, true_term)
  ELSE IF arith_buffer_is_nonzero(b) THEN Ret(tbl, false_term)
  ELSE IF arith_buffer_is_equality(b)
  THEN LET x == (CHOOSE m \in b.poly : m.coeff > 0).pp[1]
           y == (CHOOSE m \in b.poly : m.coeff < 0).pp[1]
       IN arith_bineq_atom(tbl, SortedPair(x, y)[1], SortedPair(x, y)[2])
  ELSE arith_eq_atom(tbl, b)

mk_arith_diff(tbl, t1, t2) == arith_sub(tbl, arith_add(tbl, arith_buffer_reset, t1), t2)

\* no arithmetic term of the model is an if-then-else: no lifting
mk_aritheq(tbl, t1, t2) == yices_arith_eq0_atom(tbl, mk_arith_diff(tbl, t1, t2))

mk_arithneq(tbl, t1, t2) == Neg(mk_aritheq(tbl, t1, t2))

yices_aritheq_atom(g, t1, t2) ==
  LET c == check_both_arith_terms(g, t1, t2)
  IN IF ~c.ok THEN FailTerm(g, c) ELSE OkTerm(g, mk_aritheq(g.terms, t1, t2))

(***************************************************************************)
(* Bit-vector logic buffers (term_api.c)                                   *)
(*                                                                         *)
(* A buffer is [nbits, bit]: bit[i] is bit i-1 of the vector.  A bit is    *)
(* either a constant (k = "const", val = 0 or 1) or bit i of the bit-vector*)
(* variable attached to term t (k = "select"), val = 0 when it is negated. *)
(* A bit-vector constant is the sequence of its bits, low-order bit first. *)
(***************************************************************************)
ConstBit(v) == [k |-> "const", val |-> v, i |-> 0, t |-> 0]
SelectBit(i, t) == [k |-> "select", val |-> 1, i |-> i, t |-> t]

bvlogic_buffer_clear(b) == [nbits |-> 0, bit |-> <<>>]

bvlogic_buffer_set_constant(b, n, data) ==
  [nbits |-> n, bit |-> [i \in 1..n |-> ConstBit(data[i])]]

bvlogic_buffer_set_bitarray(b, n, bits) == [nbits |-> n, bit |-> bits]

bvlogic_buffer_not(b) ==
  [b EXCEPT !.bit = [i \in 1..b.nbits |-> [b.bit[i] EXCEPT !.val = 1 - @]]]

bvlogic_buffer_and_constant(b, n, data) ==
  [b EXCEPT !.bit = [i \in 1..n |-> IF data[i] = 1 THEN b.bit[i] ELSE ConstBit(0)]]

\* the bits of the variable attached to term t
bv_var_manager_get_bit_array(t, n) == [i \in 1..n |-> SelectBit(i - 1, t)]

bvlogic_buffer_is_constant(b) == \A i \in 1..b.nbits : b.bit[i].k = "const"

RECURSIVE BitsValue(_)
BitsValue(bits) ==
  IF bits = <<>> THEN 0 ELSE bits[1].val + 2 * BitsValue(Tail(bits))

bvlogic_buffer_get_constant64(b) == BitsValue(b.bit)

\* the term t when b is (select 0 t) ... (select k t), a negative number
\* otherwise
bvlogic_buffer_get_var(b) ==
  IF /\ b.nbits > 0
     /\ \A i \in 1..b.nbits :
           /\ b.bit[i].k = "select"
           /\ b.bit[i].val = 1
           /\ b.bit[i].i = i - 1
           /\ b.bit[i].t = b.bit[1].t
  THEN b.bit[1].t
  ELSE -1

\* [types, terms, r]
bv64_constant(g, n, c) ==
  LET tau == bv_type(g.types, n)
      res == hcons(g.terms, Desc("BV64_CONSTANT", tau.r, <<c>>))
  IN [types |-> tau.tbl, terms |-> res.tbl, r |-> res.r]

convert_bit_to_term(tbl, bit) ==
  IF bit.k = "const"
  THEN Ret(tbl, IF bit.val = 1 THEN true_term ELSE false_term)
  ELSE LET res == hcons(tbl, Desc("BIT_TERM", bool_id, <<bit.i, bit.t>>))
       IN IF bit.val = 1 THEN res ELSE Neg(res)

\* the bits from position i on are converted, a holds the converted ones
RECURSIVE convert_bits(_, _, _, _)
convert_bits(tbl, bits, i, a) ==
  IF i > Len(bits) THEN [tbl |-> tbl, a |-> a]
  ELSE LET res == convert_bit_to_term(tbl, bits[i])
       IN convert_bits(res.tbl, bits, i + 1, Append(a, res.r))

bvarray_term(g, n, a) ==
  LET tau == bv_type(g.types, n)
      res == hcons(g.terms, Desc("BV_ARRAY", tau.r, a))
  IN [types |-> tau.tbl, terms |-> res.tbl, r |-> res.r]

bvlogic_buffer_get_bvarray(g, b) ==
  LET cv == convert_bits(g.terms, b.bit, 1, <<>>)
  IN bvarray_term([g EXCEPT !.terms = cv.tbl], b.nbits, cv.a)

\* the term built for buffer b, which is not empty: [types, terms, r].
\* The bound YICES_MAX_BVSIZE keeps every constant in the small branch.
bvlogic_buffer_built_term(g, b) ==
  IF bvlogic_buffer_is_constant(b)
  THEN bv64_constant(g, b.nbits, bvlogic_buffer_get_constant64(b))
  ELSE LET t == bvlogic_buffer_get_var(b)
       IN IF t < 0 \/ term_bitsize(g, t) # b.nbits
          THEN bvlogic_buffer_get_bvarray(g, b)
          ELSE [types |-> g.types, terms |-> g.terms, r |-> t]

\* buffer i is converted and cleared; the value returned is the local n,
\* the size of the buffer, as the last statement of the function has it
bvlogic_buffer_get_term(g, i) ==
  LET n == g.buffers[i].nbits
      t == bvlogic_buffer_built_term(g, g.buffers[i])
  IN [types |-> t.types, terms |-> t.terms, error |-> g.error,
      buffers |-> [g.buffers EXCEPT ![i] = bvlogic_buffer_clear(@)], r |-> n]

yices_new_bvlogic_buffer(g) ==
  BufRes(g, Append(g.buffers, bvlogic_buffer_clear(<<>>)), g.error, Len(g.buffers) + 1)

yices_bvlogic_reset(g, i) ==
  BufRes(g, [g.buffers EXCEPT ![i] = bvlogic_buffer_clear(@)], g.error, 0)

yices_bvlogic_set_const(g, i, c) ==
  BufRes(g, [g.buffers EXCEPT ![i] = bvlogic_buffer_set_constant(@, Len(c), c)], g.error, 0)

\* no BV_LOGIC_TERM or BV_CONST_TERM is in the table: the default branch
yices_bvlogic_set_term(g, i, t) ==
  LET c == AndThen(check_good_term(g, t), check_bitvector_term(g, t))
  IN IF ~c.ok THEN BufRes(g, g.buffers, c.e, -1)
     ELSE BufRes(g, [g.buffers EXCEPT ![i] =
                       bvlogic_buffer_set_bitarray(@, term_bitsize(g, t),
                          bv_var_manager_get_bit_array(t, term_bitsize(g, t)))],
                 g.error, 0)

yices_bvlogic_not(g, i) ==
  BufRes(g, [g.buffers EXCEPT ![i] = bvlogic_buffer_not(@)], g.error, 0)

yices_bvlogic_and_const(g, i, c) ==
  IF g.buffers[i].nbits # Len(c)
  THEN BufRes(g, g.buffers,
              [g.error EXCEPT !.code = "INCOMPATIBLE_BVSIZES", !.badval = Len(c)], -1)
  ELSE BufRes(g, [g.buffers EXCEPT ![i] = bvlogic_buffer_and_constant(@, Len(c), c)],
              g.error, 0)

(***************************************************************************)
(* Checks for disequalities (term_api.c)                                   *)
(***************************************************************************)
disequal_constant_terms(x, y) == x # y

disequal_boolean_terms(tbl, x, y) ==
  \/ (x = true_term /\ y = false_term)
  \/ (x = false_term /\ y = true_term)
  \/ opposite_bool_terms(tbl, x, y)

\* no BV_LOGIC_TERM, BV_ARITH_TERM or BV_CONST_TERM is built by the
\* constructors below: only the default branch applies
disequal_bitvector_terms(tbl, x, y) == FALSE

\* p - q is a constant that is not zero
must_disequal_polynomial(p, q) ==
  LET d == PolyAdd(p, q, -1)
  IN d # {} /\ \A m \in d : m.pp = <<>>

\* p is k + x for a constant k that is not zero
polynomial_is_const_plus_var(p, x) ==
  \E k \in {m.coeff : m \in p} : k # 0 /\ p = {Mono(k, <<>>), Mono(1, <<x>>)}

\* the terms that are not polynomials are the variables of the polynomials
term_theory_var(tbl, x) ==
  IF term_kind(tbl, x) = "ARITH_TERM" THEN -1 ELSE get_arithmetic_variable(tbl, x)

disequal_arith_terms(tbl, x, y) ==
  LET kx == term_kind(tbl, x)
      ky == term_kind(tbl, y)
      vx == term_theory_var(tbl, x)
      vy == term_theory_var(tbl, y)
  IN IF kx = "ARITH_TERM" /\ ky = "ARITH_TERM"
     THEN must_disequal_polynomial(arith_term_desc(tbl, x), arith_term_desc(tbl, y))
     ELSE IF kx = "ARITH_TERM" /\ vy # -1
     THEN polynomial_is_const_plus_var(arith_term_desc(tbl, x), vy)
     ELSE IF ky = "ARITH_TERM" /\ vx # -1
     THEN polynomial_is_const_plus_var(arith_term_desc(tbl, y), vx)
     ELSE FALSE

disequal_terms(g, x, y) ==
  IF is_boolean_term(g.terms, x) THEN disequal_boolean_terms(g.terms, x, y)
  ELSE IF is_arithmetic_term(g.terms, x) THEN disequal_arith_terms(g.terms, x, y)
  ELSE IF is_bitvector_term(g, x) THEN disequal_bitvector_terms(g.terms, x, y)
  ELSE IF term_kind(g.terms, x) # term_kind(g.terms, y) THEN FALSE
  ELSE IF term_kind(g.terms, x) = "CONSTANT_TERM" THEN disequal_constant_terms(x, y)
  ELSE FALSE

equal_term_arrays(n, a, b) == \A i \in 1..n : a[i] = b[i]

disequal_term_arrays(g, n, a, b) == \E i \in 1..n : disequal_terms(g, a[i], b[i])

pairwise_disequal_terms(g, n, a) ==
  \A i \in 1..n : \A j \in (i + 1)..n : disequal_terms(g, a[i], a[j])

(***************************************************************************)
(* Term constructors (term_api.c)                                          *)
(***************************************************************************)
yices_true(g) == OkTerm(g, Ret(g.terms, true_term))

yices_false(g) == OkTerm(g, Ret(g.terms, false_term))

\* variant: the constant is allocated without a lookup in the table
yices_constant_fresh(g, tau, index) ==
  LET c == check_good_constant(g, tau, index)
  IN IF ~c.ok THEN FailTerm(g, c)
     ELSE OkTerm(g, [tbl |-> Append(g.terms, Desc("CONSTANT_TERM", tau, <<index>>)),
                     r |-> pos_term(Len(g.terms) + 1)])

yices_constant(g, tau, index) ==
  LET c == check_good_constant(g, tau, index)
  IN IF ~c.ok THEN FailTerm(g, c) ELSE OkTerm(g, constant_term(g.terms, tau, index))

yices_new_uninterpreted_term(g, tau) ==
  LET c == check_good_type(g, tau)
  IN IF ~c.ok THEN FailTerm(g, c) ELSE OkTerm(g, new_uninterpreted_term(g.terms, tau))

yices_variable(g, tau, index) ==
  LET c == AndThen(check_nonneg(g, index), check_good_type(g, tau))
  IN IF ~c.ok THEN FailTerm(g, c) ELSE OkTerm(g, variable(g.terms, tau, index))

\* an update term (update f (a_1 ... a_n) v) has arguments <<f, a_1, ..., a_n, v>>
update_fun(tbl, u) == term_args(tbl, u)[1]
update_newval(tbl, u) == term_args(tbl, u)[Len(term_args(tbl, u))]
update_arg(tbl, u) == SubSeq(term_args(tbl, u), 2, Len(term_args(tbl, u)) - 1)

\* variant: an update is dropped unless its arguments are the applied ones
RECURSIVE strip_updates_eager(_, _, _, _)
strip_updates_eager(g, fun, n, arg) ==
  IF term_kind(g.terms, fun) # "UPDATE_TERM" THEN [ret |-> FALSE, x |-> fun]
  ELSE IF equal_term_arrays(n, update_arg(g.terms, fun), arg)
  THEN [ret |-> TRUE, x |-> update_newval(g.terms, fun)]
  ELSE strip_updates_eager(g, update_fun(g.terms, fun), n, arg)

\* the loop of yices_application: [ret, x], the value to return or the
\* function to apply
RECURSIVE strip_updates(_, _, _, _)
strip_updates(g, fun, n, arg) ==
  IF term_kind(g.terms, fun) # "UPDATE_TERM" THEN [ret |-> FALSE, x |-> fun]
  ELSE IF equal_term_arrays(n, update_arg(g.terms, fun), arg)
  THEN [ret |-> TRUE, x |-> update_newval(g.terms, fun)]
  ELSE IF disequal_term_arrays(g, n, update_arg(g.terms, fun), arg)
  THEN strip_updates(g, update_fun(g.terms, fun), n, arg)
  ELSE [ret |-> FALSE, x |-> fun]

yices_application(g, fun, n, arg) ==
  LET c == check_good_application(g, fun, n, arg)
  IN IF ~c.ok THEN FailTerm(g, c)
     ELSE LET s == strip_updates(g, fun, n, arg)
          IN IF s.ret THEN OkTerm(g, Ret(g.terms, s.x))
             ELSE OkTerm(g, app_term(g.terms, s.x, n, arg,
                                     g.types[term_type(g.terms, s.x) + 1].range))

\* lifting of the common factor in an if-then-else of integer polynomials
q_abs(a) == IF a < 0 THEN -a ELSE a

RECURSIVE q_gcd(_, _)
q_gcd(a, b) == IF b = 0 THEN a ELSE q_gcd(b, a % b)

\* gcd of the coefficients of p, for p # {}
RECURSIVE monarray_common_factor(_)
monarray_common_factor(p) ==
  LET m == CHOOSE m \in p : TRUE
  IN IF p = {m} THEN q_abs(m.coeff)
     ELSE q_gcd(q_abs(m.coeff), monarray_common_factor(p \ {m}))

polynomial_is_zero(p) == p = {}

arith_buffer_div_const(b, a) == [poly |-> {Mono(m.coeff \div a, m.pp) : m \in b.poly}]
arith_buffer_add_mono(b, x, a) == [poly |-> PolyAdd(b.poly, {Mono(a, <<x>>)}, 1)]

\* variant: the factor lifted is that of the then part alone
mk_integer_polynomial_ite_then(tbl, c, t, e) ==
  LET p == arith_term_desc(tbl, t)
      q == arith_term_desc(tbl, e)
      r0 == IF polynomial_is_zero(p) \/ polynomial_is_zero(q) THEN 1
            ELSE monarray_common_factor(p)
  IN IF r0 # 1
     THEN LET t1 == arith_term(tbl, arith_buffer_div_const(
                       arith_buffer_add_monarray(arith_buffer_reset, p), r0))
              e1 == arith_term(t1.tbl, arith_buffer_div_const(
                       arith_buffer_add_monarray(arith_buffer_reset, q), r0))
              t2 == ite_term(e1.tbl, c, t1.r, e1.r, int_id)
          IN arith_term(t2.tbl, arith_buffer_add_mono(arith_buffer_reset,
                                   get_arithmetic_variable(t2.tbl, t2.r), r0))
     ELSE ite_term(tbl, c, t, e, int_id)

mk_integer_polynomial_ite(tbl, c, t, e) ==
  LET p == arith_term_desc(tbl, t)
      q == arith_term_desc(tbl, e)
      r0 == IF polynomial_is_zero(p) \/ polynomial_is_zero(q) THEN 1
            ELSE q_gcd(monarray_common_factor(p), monarray_common_factor(q))
  IN IF r0 # 1
     THEN LET t1 == arith_term(tbl, arith_buffer_div_const(
                       arith_buffer_add_monarray(arith_buffer_reset, p), r0))
              e1 == arith_term(t1.tbl, arith_buffer_div_const(
                       arith_buffer_add_monarray(arith_buffer_reset, q), r0))
              t2 == ite_term(e1.tbl, c, t1.r, e1.r, int_id)
          IN arith_term(t2.tbl, arith_buffer_add_mono(arith_buffer_reset,
                                   get_arithmetic_variable(t2.tbl, t2.r), r0))
     ELSE ite_term(tbl, c, t, e, int_id)

is_integer_type(tau) == tau = int_id

\* the non-boolean cases once the condition is not a negation
ite_lifted(tbl, cond, then_term, else_term, tau) ==
  IF /\ is_integer_type(tau)
     /\ term_kind(tbl, then_term) = "ARITH_TERM"
     /\ term_kind(tbl, else_term) = "ARITH_TERM"
  THEN mk_integer_polynomial_ite(tbl, cond, then_term, else_term)
  ELSE ite_term(tbl, cond, then_term, else_term, tau)

yices_ite(g, cond, then_term, else_term) ==
  LET c == AndThen(check_good_term(g, cond),
           AndThen(check_good_term(g, then_term),
           AndThen(check_good_term(g, else_term), check_boolean_term(g, cond))))
      tau == super_type(g.types, term_type(g.terms, then_term),
                        term_type(g.terms, else_term))
  IN IF ~c.ok THEN FailTerm(g, c)
     ELSE IF tau = NULL_TYPE
     THEN FailTerm(g, Bad([g.error EXCEPT !.code = "INCOMPATIBLE_TYPES",
                             !.term1 = then_term,
                             !.type1 = term_type(g.terms, then_term),
                             !.term2 = else_term,
                             !.type2 = term_type(g.terms, else_term)]))
     ELSE IF is_boolean_term(g.terms, then_term)
     THEN OkTerm(g, mk_bool_ite(g.terms, cond, then_term, else_term))
     ELSE IF then_term = else_term THEN OkTerm(g, Ret(g.terms, then_term))
     ELSE IF cond = true_term THEN OkTerm(g, Ret(g.terms, then_term))
     ELSE IF cond = false_term THEN OkTerm(g, Ret(g.terms, else_term))
     ELSE IF term_kind(g.terms, cond) = "NOT_TERM"
     THEN OkTerm(g, ite_lifted(g.terms, not_term_arg(cond), else_term, then_term, tau))
     ELSE OkTerm(g, ite_lifted(g.terms, cond, then_term, else_term, tau))

mk_bveq(tbl, t1, t2) ==
  IF t1 = t2 THEN Ret(tbl, true_term)
  ELSE IF disequal_bitvector_terms(tbl, t1, t2) THEN Ret(tbl, false_term)
  ELSE bveq_atom(tbl, SortedPair(t1, t2)[1], SortedPair(t1, t2)[2])

mk_bvneq(tbl, t1, t2) ==
  IF t1 = t2 THEN Ret(tbl, false_term)
  ELSE IF disequal_bitvector_terms(tbl, t1, t2) THEN Ret(tbl, true_term)
  ELSE Neg(bveq_atom(tbl, SortedPair(t1, t2)[1], SortedPair(t1, t2)[2]))

yices_bveq_atom(g, t1, t2) ==
  LET c == check_compatible_bv_terms(g, t1, t2)
  IN IF ~c.ok THEN FailTerm(g, c) ELSE OkTerm(g, mk_bveq(g.terms, t1, t2))

yices_eq(g, left, right) ==
  LET c == check_good_eq(g, left, right)
  IN IF ~c.ok THEN FailTerm(g, c)
     ELSE IF is_boolean_term(g.terms, left) THEN OkTerm(g, mk_iff(g.terms, left, right))
     ELSE IF is_arithmetic_term(g.terms, left)
     THEN OkTerm(g, mk_aritheq(g.terms, left, right))
     ELSE IF is_bitvector_term(g, left) THEN OkTerm(g, mk_bveq(g.terms, left, right))
     ELSE IF left = right THEN OkTerm(g, Ret(g.terms, true_term))
     ELSE IF disequal_terms(g, left, right) THEN OkTerm(g, Ret(g.terms, false_term))
     ELSE OkTerm(g, eq_term(g.terms, SortedPair(left, right)[1], SortedPair(left, right)[2]))

yices_neq(g, left, right) ==
  LET c == check_good_eq(g, left, right)
  IN IF ~c.ok THEN FailTerm(g, c)
     ELSE IF is_boolean_term(g.terms, left) THEN OkTerm(g, mk_xor(g.terms, left, right))
     ELSE IF is_arithmetic_term(g.terms, left)
     THEN OkTerm(g, mk_arithneq(g.terms, left, right))
     ELSE IF is_bitvector_term(g, left) THEN OkTerm(g, mk_bvneq(g.terms, left, right))
     ELSE IF left = right THEN OkTerm(g, Ret(g.terms, false_term))
     ELSE IF disequal_terms(g, left, right) THEN OkTerm(g, Ret(g.terms, true_term))
     ELSE OkTerm(g, Neg(eq_term(g.terms, SortedPair(left, right)[1],
                                SortedPair(left, right)[2])))

check_bool_array(g, n, arg) ==
  AndThen(check_nonneg(g, n),
  AndThen(check_arity(g, n),
  AndThen(check_good_terms(g, n, arg), check_boolean_args(g, n, arg))))

yices_or(g, n, arg) ==
  LET c == check_bool_array(g, n, arg)
  IN IF ~c.ok THEN FailTerm(g, c)
     ELSE IF n = 0 THEN OkTerm(g, Ret(g.terms, false_term))
     ELSE IF n = 1 THEN OkTerm(g, Ret(g.terms, arg[1]))
     ELSE IF n = 2 THEN OkTerm(g, mk_binary_or(g.terms, arg[1], arg[2]))
     ELSE OkTerm(g, mk_or(g.terms, n, arg))

yices_and(g, n, arg) ==
  LET c == check_bool_array(g, n, arg)
  IN IF ~c.ok THEN FailTerm(g, c)
     ELSE IF n = 0 THEN OkTerm(g, Ret(g.terms, true_term))
     ELSE IF n = 1 THEN OkTerm(g, Ret(g.terms, arg[1]))
     ELSE IF n = 2 THEN OkTerm(g, mk_binary_and(g.terms, arg[1], arg[2]))
     ELSE OkTerm(g, mk_and(g.terms, n, arg))

yices_not(g, arg) ==
  LET c == AndThen(check_good_term(g, arg), check_boolean_term(g, arg))
  IN IF ~c.ok THEN FailTerm(g, c) ELSE OkTerm(g, Ret(g.terms, mk_not(g.terms, arg)))

check_two_booleans(g, left, right) ==
  AndThen(check_good_term(g, left),
  AndThen(check_good_term(g, right),
  AndThen(check_boolean_term(g, left), check_boolean_term(g, right))))

yices_xor(g, left, right) ==
  LET c == check_two_booleans(g, left, right)
  IN IF ~c.ok THEN FailTerm(g, c) ELSE OkTerm(g, mk_xor(g.terms, left, right))

yices_iff(g, left, right) ==
  LET c == check_two_booleans(g, left, right)
  IN IF ~c.ok THEN FailTerm(g, c) ELSE OkTerm(g, mk_iff(g.terms, left, right))

yices_implies(g, left, right) ==
  LET c == check_two_booleans(g, left, right)
  IN IF ~c.ok THEN FailTerm(g, c) ELSE OkTerm(g, mk_implies(g.terms, left, right))

\* n = 2 is handed to yices_neq before any check of n or of the array
\* variant: no search for two equal arguments
yices_distinct_nodup(g, n, arg) ==
  IF n = 2 THEN yices_neq(g, arg[1], arg[2])
  ELSE LET c == AndThen(check_positive(g, n),
                AndThen(check_arity(g, n), check_good_distinct_term(g, n, arg)))
           tau == term_type(g.terms, arg[1])
           a == int_array_sort(arg)
       IN IF ~c.ok THEN FailTerm(g, c)
          ELSE IF n = 1 THEN OkTerm(g, Ret(g.terms, true_term))
          ELSE IF \/ tau = bool_id
                  \/ (type_kind(g.types, tau) = "SCALAR_TYPE"
                      /\ scalar_type_cardinal(g.types, tau) < n)
          THEN OkTerm(g, Ret(g.terms, false_term))
          ELSE IF pairwise_disequal_terms(g, n, a) THEN OkTerm(g, Ret(g.terms, true_term))
          ELSE OkTerm(g, distinct_term(g.terms, n, a))

yices_distinct(g, n, arg) ==
  IF n = 2 THEN yices_neq(g, arg[1], arg[2])
  ELSE LET c == AndThen(check_positive(g, n),
                AndThen(check_arity(g, n), check_good_distinct_term(g, n, arg)))
           tau == term_type(g.terms, arg[1])
           a == int_array_sort(arg)
       IN IF ~c.ok THEN FailTerm(g, c)
          ELSE IF n = 1 THEN OkTerm(g, Ret(g.terms, true_term))
          ELSE IF \/ tau = bool_id
                  \/ (type_kind(g.types, tau) = "SCALAR_TYPE"
                      /\ scalar_type_cardinal(g.types, tau) < n)
          THEN OkTerm(g, Ret(g.terms, false_term))
          ELSE IF \E i \in 2..n : a[i] = a[i - 1] THEN OkTerm(g, Ret(g.terms, false_term))
          ELSE IF pairwise_disequal_terms(g, n, a) THEN OkTerm(g, Ret(g.terms, true_term))
          ELSE OkTerm(g, distinct_term(g.terms, n, a))

\* the array of variables is sorted before it is checked
\* variant: the quantified term is built whatever the body is
yices_forall_nofold(g, n, var, body) ==
  LET v == IF n > 1 THEN int_array_sort(var) ELSE var
      c == check_good_quantified_term(g, n, v, body)
  IN IF ~c.ok THEN FailTerm(g, c) ELSE OkTerm(g, forall_term(g.terms, n, v, body))

yices_forall(g, n, var, body) ==
  LET v == IF n > 1 THEN int_array_sort(var) ELSE var
      c == check_good_quantified_term(g, n, v, body)
  IN IF ~c.ok THEN FailTerm(g, c)
     ELSE IF body = true_term THEN OkTerm(g, Ret(g.terms, body))
     ELSE IF body = false_term THEN OkTerm(g, Ret(g.terms, body))
     ELSE OkTerm(g, forall_term(g.terms, n, v, body))

yices_exists(g, n, var, body) ==
  LET v == IF n > 1 THEN int_array_sort(var) ELSE var
      c == check_good_quantified_term(g, n, v, body)
  IN IF ~c.ok THEN FailTerm(g, c)
     ELSE IF body = true_term THEN OkTerm(g, Ret(g.terms, body))
     ELSE IF body = false_term THEN OkTerm(g, Ret(g.terms, body))
     ELSE OkTerm(g, Neg(forall_term(g.terms, n, v, bool_negate(g.terms, body))))

\* yices_clear_error: only the code is reset
yices_clear_error(e) == [e EXCEPT !.code = "NO_ERROR"]

(***************************************************************************)
(* Calls of the API.  A call is [op, a, x, y]: a is the array argument     *)
(* (or the three arguments of yices_ite), x and y the scalar arguments.    *)
(***************************************************************************)
\* tuples, projections and function updates
tuple_type_arity(tys, tau) == tys[tau + 1].size
tuple_type_component(tys, tau, i) == tys[tau + 1].elem[i + 1]

\* (tuple a_1 ... a_n): its type is the tuple type of the types of the a_i
tuple_term(g, n, arg) ==
  LET tau == tuple_type(g.types, n, [i \in 1..n |-> term_type(g.terms, arg[i])])
      res == hcons(g.terms, Desc("TUPLE_TERM", tau.r, arg))
  IN [types |-> tau.tbl, terms |-> res.tbl, error |-> g.error, r |-> res.r]

\* (select i t) has arguments <<i, t>>
select_term(g, index, tuple) ==
  hcons(g.terms, Desc("SELECT_TERM",
                      tuple_type_component(g.types, term_type(g.terms, tuple), index),
                      <<index, tuple>>))
select_term_index(tbl, a) == term_args(tbl, a)[1]
select_term_arg(tbl, a) == term_args(tbl, a)[2]
tuple_term_arg(tbl, tuple, index) == term_args(tbl, tuple)[index + 1]

update_term(g, fun, n, arg, new_v) ==
  hcons(g.terms, Desc("UPDATE_TERM", term_type(g.terms, fun), <<fun>> \o arg \o <<new_v>>))

check_good_select(g, i, t) ==
  LET c == check_good_term(g, t)
      tau == term_type(g.terms, t)
  IN IF ~c.ok THEN c
     ELSE IF type_kind(g.types, tau) # "TUPLE_TYPE"
     THEN Bad([g.error EXCEPT !.code = "TUPLE_REQUIRED", !.term1 = t])
     ELSE IF i >= tuple_type_arity(g.types, tau)
     THEN Bad([g.error EXCEPT !.code = "INVALID_TUPLE_INDEX", !.type1 = tau, !.badval = i])
     ELSE Pass(g)

check_good_update(g, f, n, a, v) ==
  LET c1 == AndThen(check_positive(g, n),
            AndThen(check_good_term(g, f),
            AndThen(check_good_term(g, v), check_good_terms(g, n, a))))
  IN IF ~c1.ok THEN c1
     ELSE IF ~is_function_term(g, f)
     THEN Bad([g.error EXCEPT !.code = "FUNCTION_REQUIRED", !.term1 = f])
     ELSE IF n # function_type_desc(g, f).size
     THEN Bad([g.error EXCEPT !.code = "WRONG_NUMBER_OF_ARGUMENTS",
                              !.type1 = term_type(g.terms, f), !.badval = n])
     ELSE IF ~is_subtype(g.types, term_type(g.terms, v), function_type_desc(g, f).range)
     THEN Bad([g.error EXCEPT !.code = "TYPE_MISMATCH", !.term1 = v,
                              !.type1 = function_type_desc(g, f).range, !.index = -1])
     ELSE check_arg_types(g, n, a, function_type_desc(g, f).elem)

\* whether every arg[i] is the projection i of the term x
all_selects_of(tbl, n, arg, x) ==
  \A i \in 1..(n - 1) :
     /\ term_kind(tbl, arg[i + 1]) = "SELECT_TERM"
     /\ select_term_index(tbl, arg[i + 1]) = i
     /\ select_term_arg(tbl, arg[i + 1]) = x

yices_tuple(g, n, arg) ==
  LET c == AndThen(check_positive(g, n),
           AndThen(check_arity(g, n), check_good_terms(g, n, arg)))
  IN IF ~c.ok THEN FailTerm(g, c)
     ELSE IF term_kind(g.terms, arg[1]) = "SELECT_TERM"
             /\ select_term_index(g.terms, arg[1]) = 0
     THEN LET x == select_term_arg(g.terms, arg[1])
          IN IF all_selects_of(g.terms, n, arg, x)
             THEN OkTerm(g, Ret(g.terms, x))
             ELSE tuple_term(g, n, arg)
     ELSE tuple_term(g, n, arg)

yices_select(g, index, tuple) ==
  LET c == check_good_select(g, index, tuple)
  IN IF ~c.ok THEN FailTerm(g, c)
     ELSE IF term_kind(g.terms, tuple) = "TUPLE_TERM"
     THEN OkTerm(g, Ret(g.terms, tuple_term_arg(g.terms, tuple, index)))
     ELSE OkTerm(g, select_term(g, index, tuple))

yices_update(g, fun, n, arg, new_v) ==
  LET c == check_good_update(g, fun, n, arg, new_v)
  IN IF ~c.ok THEN FailTerm(g, c)
     ELSE OkTerm(g, update_term(g, fun, n, arg, new_v))

MkCall(op, a, x, y) == [op |-> op, a |-> a, x |-> x, y |-> y]

NoCall == [op |-> "none", a |-> <<>>, x |-> 0, y |-> 0, r |-> 0]

ApplyCall(g, c) ==
  CASE c.op = "yices_bv_type" -> yices_bv_type(g, c.x)
    [] c.op = "yices_new_uninterpreted_type" -> yices_new_uninterpreted_type(g)
    [] c.op = "yices_new_scalar_type" -> yices_new_scalar_type(g, c.x)
    [] c.op = "yices_function_type" -> yices_function_type(g, Len(c.a), c.a, c.x)
    [] c.op = "yices_constant" -> yices_constant(g, c.x, c.y)
    [] c.op = "yices_new_uninterpreted_term" -> yices_new_uninterpreted_term(g, c.x)
    [] c.op = "yices_variable" -> yices_variable(g, c.x, c.y)
    [] c.op = "yices_application" -> yices_application(g, c.x, Len(c.a), c.a)
    [] c.op = "yices_ite" -> yices_ite(g, c.a[1], c.a[2], c.a[3])
    [] c.op = "yices_eq" -> yices_eq(g, c.x, c.y)
    [] c.op = "yices_neq" -> yices_neq(g, c.x, c.y)
    [] c.op = "yices_bveq_atom" -> yices_bveq_atom(g, c.x, c.y)
    [] c.op = "yices_or" -> yices_or(g, Len(c.a), c.a)
    [] c.op = "yices_and" -> yices_and(g, Len(c.a), c.a)
    [] c.op = "yices_not" -> yices_not(g, c.x)
    [] c.op = "yices_xor" -> yices_xor(g, c.x, c.y)
    [] c.op = "yices_iff" -> yices_iff(g, c.x, c.y)
    [] c.op = "yices_implies" -> yices_implies(g, c.x, c.y)
    [] c.op = "yices_distinct" -> yices_distinct(g, Len(c.a), c.a)
    [] c.op = "yices_forall" -> yices_forall(g, Len(c.a), c.a, c.x)
    [] c.op = "yices_exists" -> yices_exists(g, Len(c.a), c.a, c.x)
    [] c.op = "yices_arith_constant" -> yices_arith_constant(g, c.x)
    [] c.op = "yices_add" -> yices_add(g, c.x, c.y)
    [] c.op = "yices_sub" -> yices_sub(g, c.x, c.y)
    [] c.op = "yices_neg" -> yices_neg(g, c.x)
    [] c.op = "yices_mul" -> yices_mul(g, c.x, c.y)
    [] c.op = "yices_square" -> yices_square(g, c.x)
    [] c.op = "yices_aritheq_atom" -> yices_aritheq_atom(g, c.x, c.y)
    [] c.op = "yices_tuple" -> yices_tuple(g, Len(c.a), c.a)
    [] c.op = "yices_select" -> yices_select(g, c.x, c.y)
    [] c.op = "yices_update" -> yices_update(g, c.x, Len(c.a), c.a, c.y)

\* the operations on buffers: c.x is the position of the buffer (or the
\* size of the buffer to allocate), c.y the term
BufferOps == {"yices_new_bvarith_buffer", "yices_bvarith_add_term", "yices_bvarith_mul_term"}

ApplyBuf(g, c) ==
  CASE c.op = "yices_new_bvarith_buffer" ->
         [buffers |-> yices_new_bvarith_buffer(g.buffers, c.x), error |-> g.error,
          r |-> Len(g.buffers) + 1]
    [] c.op = "yices_bvarith_add_term" -> yices_bvarith_add_term(g, g.buffers, c.x, c.y)
    [] c.op = "yices_bvarith_mul_term" -> yices_bvarith_mul_term(g, g.buffers, c.x, c.y)

\* the single element of a singleton set
The(S) == CHOOSE x \in S : TRUE

\* the operations on arithmetic buffers: c.x is the position of the buffer,
\* c.y the term or the position of the second buffer
ArithBufferOps == {"yices_new_arith_buffer", "yices_arith_add_term", "yices_arith_mul_term",
                   "yices_arith_mul_buffer", "yices_arith_square", "yices_arith_term"}

ApplyArithBuf(g, c) ==
  CASE c.op = "yices_new_arith_buffer" -> yices_new_arith_buffer(g)
    [] c.op = "yices_arith_add_term" -> yices_arith_add_term(g, c.x, c.y)
    [] c.op = "yices_arith_mul_term" -> yices_arith_mul_term(g, c.x, c.y)
    [] c.op = "yices_arith_mul_buffer" -> yices_arith_mul_buffer(g, c.x, c.y)
    [] c.op = "yices_arith_square" -> yices_arith_square(g, c.x)
    [] c.op = "yices_arith_term" -> yices_arith_buffer_term(g, c.x)

\* the operations on bit-vector logic buffers: c.x is the position of the
\* buffer, c.y the term, c.a the constant
BvlogicBufferOps == {"yices_new_bvlogic_buffer", "yices_bvlogic_reset",
                     "yices_bvlogic_set_const", "yices_bvlogic_set_term",
                     "yices_bvlogic_not", "yices_bvlogic_and_const",
                     "bvlogic_buffer_get_term"}

ApplyBvlogicBuf(g, c) ==
  CASE c.op = "yices_new_bvlogic_buffer" -> yices_new_bvlogic_buffer(g)
    [] c.op = "yices_bvlogic_reset" -> yices_bvlogic_reset(g, c.x)
    [] c.op = "yices_bvlogic_set_const" -> yices_bvlogic_set_const(g, c.x, c.a)
    [] c.op = "yices_bvlogic_set_term" -> yices_bvlogic_set_term(g, c.x, c.y)
    [] c.op = "yices_bvlogic_not" -> yices_bvlogic_not(g, c.x)
    [] c.op = "yices_bvlogic_and_const" -> yices_bvlogic_and_const(g, c.x, c.a)
    [] c.op = "bvlogic_buffer_get_term" -> bvlogic_buffer_get_term(g, c.x)

\* any call: [types, terms, error, buffers, r]
Apply(g, c) ==
  IF c.op \in BufferOps
  THEN The({[types |-> g.types, terms |-> g.terms, error |-> b.error,
             buffers |-> b.buffers, r |-> b.r] : b \in {ApplyBuf(g, c)}})
  ELSE IF c.op \in ArithBufferOps
  THEN The({b : b \in {ApplyArithBuf(g, c)}})
  ELSE IF c.op \in BvlogicBufferOps
  THEN The({b : b \in {ApplyBvlogicBuf(g, c)}})
  ELSE The({[types |-> t.types, terms |-> t.terms, error |-> t.error,
             buffers |-> g.buffers, r |-> t.r] : t \in {ApplyCall(g, c)}})

G == [types |-> types, terms |-> terms, error |-> error, buffers |-> buffers]

\* a call has failed when it returns NULL_TERM, NULL_TYPE or -1
Failed(r) == r = -1

\* the code that the failure of call c reports, whatever the report held before
FailureCode(g, c) == Apply([g EXCEPT !.error = init_error], c).error.code

\* the call c is made and returns
Do(c) ==
  /\ last.op = "none"
  /\ ncalls < MaxCalls
  /\ \E res \in {Apply(G, c)} :
        /\ types' = res.types
        /\ terms' = res.terms
        /\ error' = res.error
        /\ buffers' = res.buffers
        /\ last' = [op |-> c.op, a |-> c.a, x |-> c.x, y |-> c.y, r |-> res.r]
        /\ fails' = IF Failed(res.r) THEN Append(fails, FailureCode(G, c)) ELSE fails
  /\ ncalls' = ncalls + 1
  /\ UNCHANGED <<sk, ef>>

\* the caller takes the returned value; its argument array goes out of scope
Return ==
  /\ last.op # "none"
  /\ last' = NoCall
  /\ UNCHANGED <<types, terms, error, buffers, sk, fails, ncalls, ef>>

(***************************************************************************)
(* Skolemization (exists_forall/ef_skolemize.c)                            *)
(* S is the skolemizer with its analyzer and the tables they work on:      *)
(*   types, terms, error   the global tables and error report              *)
(*   flatten_ite, flatten_iff, uvars          fields of ef_skolemize_t     *)
(*   existentials, num_skolem                 fields of the analyzer       *)
(*   ndebug   assertions are compiled out (NDEBUG)                         *)
(*   halted   an assertion has failed and aborted the process              *)
(*   clash    assert(r == NULL) of ef_skolem_body was false at least once  *)
(*   calls    the calls of ef_skolemize_term that have returned, each with *)
(*            uvars at entry and at return                                 *)
(*   bodies   the calls of ef_skolem_body, each with what it did           *)
(* Every operation returns [S, r]: the state after it and its result.      *)
(***************************************************************************)
GOf(S) == [types |-> S.types, terms |-> S.terms, error |-> S.error]

\* state and result after a constructor of the term table / of the API
WithTbl(S, res) == [S |-> [S EXCEPT !.terms = res.tbl], r |-> res.r]

WithG(S, g) ==
  [S |-> [S EXCEPT !.types = g.types, !.terms = g.terms, !.error = g.error], r |-> g.r]

\* the result with the polarity of t applied
Polar(t, res) == IF is_neg_term(t) THEN [res EXCEPT !.r = opposite_term(@)] ELSE res

term_is_atomic(tbl, t) ==
  index_kind(tbl, t) \in {"CONSTANT_TERM", "UNINTERPRETED_TERM", "VARIABLE"}

term_num_children(tbl, t) == Len(term_args(tbl, t))

term_child(tbl, t, i) == term_args(tbl, t)[i + 1]

\* term-manager constructors used by the skolemizer
mk_eq(S, a, b) == WithG(S, yices_eq(GOf(S), a, b))

mk_ite(S, c, a, b) == WithG(S, yices_ite(GOf(S), c, a, b))

mk_application(S, f, n, a) == WithG(S, yices_application(GOf(S), f, n, a))

\* assert(false): the debug build aborts, the release build goes on
AssertFalse(S) == [S |-> [S EXCEPT !.halted = ~S.ndebug], r |-> NULL_TERM]

ef_update_composite(S, t, args) ==
  LET kind == index_kind(S.terms, t)
      n == Len(args)
  IN CASE kind = "EQ_TERM" -> mk_eq(S, args[1], args[2])
       [] kind = "OR_TERM" -> WithTbl(S, mk_or(S.terms, n, args))
       [] kind = "BV_EQ_ATOM" -> WithTbl(S, mk_bveq(S.terms, args[1], args[2]))
       [] kind = "ITE_TERM" -> mk_ite(S, args[1], args[2], args[3])
       [] kind = "APP_TERM" -> mk_application(S, args[1], n - 1, SubSeq(args, 2, n))
       [] OTHER -> AssertFalse(S)

\* apply_term_subst: the variables a[i] are replaced by s[i] in t; composites
\* are rebuilt through the constructors.  No bound variable of t occurs in
\* the terms s[i] (no renaming is needed).
RECURSIVE subst_term(_, _, _, _)
RECURSIVE subst_children(_, _, _, _, _, _)
subst_children(S, a, s, args, i, acc) ==
  IF i > Len(args) THEN [S |-> S, r |-> acc]
  ELSE The({ subst_children(v.S, a, s, args, i + 1, Append(acc, v.r))
               : v \in {subst_term(S, a, s, args[i])} })

subst_term(S, a, s, t) ==
  IF term_is_atomic(S.terms, t)
  THEN IF \E i \in 1..Len(a) : a[i] = t
       THEN [S |-> S, r |-> s[CHOOSE i \in 1..Len(a) : a[i] = t]]
       ELSE [S |-> S, r |-> t]
  ELSE IF index_kind(S.terms, t) = "FORALL_TERM"
  THEN The({ Polar(t, WithG(v.S, yices_forall(GOf(v.S), term_num_children(S.terms, t) - 1,
                                              SubSeq(term_args(S.terms, t), 1,
                                                     term_num_children(S.terms, t) - 1),
                                              v.r)))
               : v \in {subst_term(S, a, s, term_child(S.terms, t,
                                                       term_num_children(S.terms, t) - 1))} })
  ELSE The({ Polar(t, ef_update_composite(v.S, unsigned_term(t), v.r))
               : v \in {subst_children(S, a, s, term_args(S.terms, t), 1, <<>>)} })

apply_term_subst(S, a, s, body) == subst_term(S, a, s, body)

\* ef_skolem_term: [S, func, fapp]
\* variant: the counter is not incremented
ef_skolem_term_stale(S, x, n, uvars) ==
  The({ The({ The({ [S |-> [S EXCEPT !.types = g3.types, !.terms = g3.terms,
                                     !.error = g3.error,
                                     !.names = Append(@, [func |-> g2.r, n |-> S.num_skolem,
                                                          x |-> x])],
                     func |-> g2.r, fapp |-> g3.r]
                     : g3 \in {yices_application(g2, g2.r, n, uvars)} })
              : g2 \in {yices_new_uninterpreted_term(g1, g1.r)} })
          : g1 \in {yices_function_type(GOf(S), n,
                                        [i \in 1..n |-> term_type(S.terms, uvars[i])],
                                        term_type(S.terms, x))} })

\* the name skolem<num_skolem>_<name of x> given to the function is kept in
\* names as [func, n, x]
ef_skolem_term(S, x, n, uvars) ==
  The({ The({ The({ [S |-> [S EXCEPT !.types = g3.types, !.terms = g3.terms,
                                     !.error = g3.error, !.num_skolem = S.num_skolem + 1,
                                     !.names = Append(@, [func |-> g2.r,
                                                          n |-> S.num_skolem + 1, x |-> x])],
                     func |-> g2.r, fapp |-> g3.r]
                     : g3 \in {yices_application(g2, g2.r, n, uvars)} })
              : g2 \in {yices_new_uninterpreted_term(g1, g1.r)} })
          : g1 \in {yices_function_type(GOf(S), n,
                                        [i \in 1..n |-> term_type(S.terms, uvars[i])],
                                        term_type(S.terms, x))} })

\* int_hmap_find(&ef->existentials, x) finds a record
in_existentials(S, x) == \E k \in 1..Len(S.existentials) : S.existentials[k].key = x

\* the loop of ef_skolem_body over the variables a[i], from i on:
\* [S, skolems, funcs, added]
RECURSIVE skolem_vars(_, _, _, _)
skolem_vars(S, a, i, acc) ==
  IF i > Len(a) \/ S.halted THEN [S |-> S, skolems |-> acc.skolems, funcs |-> acc.funcs]
  ELSE IF in_existentials(S, a[i]) /\ ~S.ndebug
  THEN [S |-> [S EXCEPT !.halted = TRUE, !.clash = TRUE],
        skolems |-> acc.skolems, funcs |-> acc.funcs]
  ELSE IF S.uvars = <<>>
  THEN skolem_vars([S EXCEPT !.clash = @ \/ in_existentials(S, a[i]),
                             !.existentials = Append(@, [key |-> a[i], val |-> a[i]])],
                   a, i + 1, acc)
  ELSE The({ skolem_vars([k.S EXCEPT !.clash = @ \/ in_existentials(S, a[i]),
                                     !.existentials = Append(@, [key |-> a[i], val |-> k.func])],
                         a, i + 1,
                         [skolems |-> Append(acc.skolems, k.fapp),
                          funcs |-> Append(acc.funcs, k.func)])
               : k \in {ef_skolem_term(S, a[i], Len(S.uvars), S.uvars)} })

\* variant: the Skolem terms are built but not substituted in the body
ef_skolem_body_nosubst(S, t) ==
  LET d == term_args(S.terms, t)
      n == Len(d) - 1
      a == SubSeq(d, 1, n)
      body == opposite_term(d[n + 1])
      Record(S1, w, out) ==
        [S1 EXCEPT !.bodies = Append(@, [t |-> t, uvars |-> S.uvars, nterms |-> Len(S.terms),
                                         vars |-> a, body |-> body, skolems |-> w.skolems,
                                         funcs |-> w.funcs, out |-> out])]
  IN The({ IF w.S.halted THEN [S |-> w.S, r |-> NULL_TERM]
           ELSE IF S.uvars = <<>> THEN [S |-> Record(w.S, w, body), r |-> body]
           ELSE [S |-> Record(w.S, w, body), r |-> body]
             : w \in {skolem_vars(S, a, 1, [skolems |-> <<>>, funcs |-> <<>>])} })

\* t is (not (forall x_0 ... x_k : body))
ef_skolem_body(S, t) ==
  LET d == term_args(S.terms, t)
      n == Len(d) - 1
      a == SubSeq(d, 1, n)
      body == opposite_term(d[n + 1])
      Record(S1, w, out) ==
        [S1 EXCEPT !.bodies = Append(@, [t |-> t, uvars |-> S.uvars, nterms |-> Len(S.terms),
                                         vars |-> a, body |-> body, skolems |-> w.skolems,
                                         funcs |-> w.funcs, out |-> out])]
  IN The({ IF w.S.halted THEN [S |-> w.S, r |-> NULL_TERM]
           ELSE IF S.uvars = <<>> THEN [S |-> Record(w.S, w, body), r |-> body]
           ELSE The({ [S |-> Record(b.S, w, b.r), r |-> b.r]
                        : b \in {apply_term_subst(w.S, a, w.skolems, body)} })
             : w \in {skolem_vars(S, a, 1, [skolems |-> <<>>, funcs |-> <<>>])} })

\* the universal variables pushed on entering a forall, popped on leaving it
push_uvars(uvars, xs) == uvars \o xs

\* variant: one variable less is popped
pop_uvars_short(uvars, n) == SubSeq(uvars, 1, Len(uvars) - (n - 1))

pop_uvars(uvars, n) == SubSeq(uvars, 1, Len(uvars) - n)

RECURSIVE ef_skolemize_term(_, _)
RECURSIVE skolemize_children(_, _, _, _)
\* the loops of ef_skolemize_term over the children args[i..]: [S, r], r the
\* array of results
skolemize_children(S, args, i, acc) ==
  IF i > Len(args) THEN [S |-> S, r |-> acc]
  ELSE The({ skolemize_children(v.S, args, i + 1, Append(acc, v.r))
               : v \in {ef_skolemize_term(S, args[i])} })

\* nothing more is built once the process has aborted
Unless(v, res) == IF v.S.halted THEN [S |-> v.S, r |-> NULL_TERM] ELSE res

\* u := (a1 => b1), v := (a2 => b2): [S, r = <<u, v>>]
two_implies(S, a1, b1, a2, b2) ==
  The({ The({ [S |-> [S EXCEPT !.terms = r2.tbl], r |-> <<r1.r, r2.r>>]
                : r2 \in {mk_implies(r1.tbl, a2, b2)} })
          : r1 \in {mk_implies(S.terms, a1, b1)} })

negated_pair(w) == [w EXCEPT !.r = <<opposite_term(w.r[1]), opposite_term(w.r[2])>>]

\* variant: the two connectives are exchanged
skolemize_flat_swapped(w, is_or) ==
  The({ Unless(v, WithTbl(v.S, IF is_or THEN mk_and(v.S.terms, 2, v.r)
                                        ELSE mk_or(v.S.terms, 2, v.r)))
          : v \in {skolemize_children(w.S, w.r, 1, <<>>)} })

\* u and v are skolemized and joined by mk_and or mk_or
skolemize_flat(w, is_or) ==
  The({ Unless(v, WithTbl(v.S, IF is_or THEN mk_or(v.S.terms, 2, v.r)
                                        ELSE mk_and(v.S.terms, 2, v.r)))
          : v \in {skolemize_children(w.S, w.r, 1, <<>>)} })

\* variant: a negated forall is returned as it is
ef_skolemize_neg_keep(S, t) ==
  LET kind == index_kind(S.terms, t)
      d == term_args(S.terms, t)
  IN IF kind = "ITE_TERM" /\ S.flatten_ite /\ is_boolean_term(S.terms, d[2])
     THEN skolemize_flat(two_implies(S, d[1], opposite_term(d[2]),
                                     opposite_term(d[1]), opposite_term(d[3])), FALSE)
     ELSE IF kind = "EQ_TERM" /\ S.flatten_iff /\ is_boolean_term(S.terms, d[1])
     THEN skolemize_flat(negated_pair(two_implies(S, d[1], d[2], d[2], d[1])), TRUE)
     ELSE IF kind = "OR_TERM"
     THEN The({ Unless(v, WithTbl(v.S, mk_and(v.S.terms, Len(d), v.r)))
                  : v \in {skolemize_children(S, [i \in 1..Len(d) |-> opposite_term(d[i])],
                                              1, <<>>)} })
     ELSE IF kind = "FORALL_TERM"
     THEN [S |-> S, r |-> t]
     ELSE The({ Unless(v, Polar(t, ef_update_composite(v.S, unsigned_term(t), v.r)))
                  : v \in {skolemize_children(S, d, 1, <<>>)} })

\* ef_skolemize_term, t of negative polarity and not atomic
ef_skolemize_neg(S, t) ==
  LET kind == index_kind(S.terms, t)
      d == term_args(S.terms, t)
  IN IF kind = "ITE_TERM" /\ S.flatten_ite /\ is_boolean_term(S.terms, d[2])
     THEN skolemize_flat(two_implies(S, d[1], opposite_term(d[2]),
                                     opposite_term(d[1]), opposite_term(d[3])), FALSE)
     ELSE IF kind = "EQ_TERM" /\ S.flatten_iff /\ is_boolean_term(S.terms, d[1])
     THEN skolemize_flat(negated_pair(two_implies(S, d[1], d[2], d[2], d[1])), TRUE)
     ELSE IF kind = "OR_TERM"
     THEN The({ Unless(v, WithTbl(v.S, mk_and(v.S.terms, Len(d), v.r)))
                  : v \in {skolemize_children(S, [i \in 1..Len(d) |-> opposite_term(d[i])],
                                              1, <<>>)} })
     ELSE IF kind = "FORALL_TERM"
     THEN The({ ef_skolemize_term(b.S, b.r) : b \in {ef_skolem_body(S, t)} })
     ELSE The({ Unless(v, Polar(t, ef_update_composite(v.S, unsigned_term(t), v.r)))
                  : v \in {skolemize_children(S, d, 1, <<>>)} })

\* variant: the forall is rebuilt around its skolemized body
ef_skolemize_pos_rebuild(S, t) ==
  LET kind == index_kind(S.terms, t)
      d == term_args(S.terms, t)
      n == Len(d) - 1
  IN IF kind = "ITE_TERM" /\ S.flatten_ite /\ is_boolean_term(S.terms, d[2])
     THEN skolemize_flat(two_implies(S, d[1], d[2], opposite_term(d[1]), d[3]), FALSE)
     ELSE IF kind = "EQ_TERM" /\ S.flatten_iff /\ is_boolean_term(S.terms, d[1])
     THEN skolemize_flat(two_implies(S, d[1], d[2], d[2], d[1]), FALSE)
     ELSE IF kind = "FORALL_TERM"
     THEN The({ Unless(v, WithG([v.S EXCEPT !.uvars = pop_uvars(@, n)],
                                   yices_forall(GOf(v.S), n, SubSeq(d, 1, n), v.r)))
                  : v \in {ef_skolemize_term([S EXCEPT !.uvars = push_uvars(@, SubSeq(d, 1, n))],
                                             d[n + 1])} })
     ELSE The({ Unless(v, ef_update_composite(v.S, unsigned_term(t), v.r))
                  : v \in {skolemize_children(S, d, 1, <<>>)} })

\* ef_skolemize_term, t of positive polarity and not atomic
ef_skolemize_pos(S, t) ==
  LET kind == index_kind(S.terms, t)
      d == term_args(S.terms, t)
      n == Len(d) - 1
  IN IF kind = "ITE_TERM" /\ S.flatten_ite /\ is_boolean_term(S.terms, d[2])
     THEN skolemize_flat(two_implies(S, d[1], d[2], opposite_term(d[1]), d[3]), FALSE)
     ELSE IF kind = "EQ_TERM" /\ S.flatten_iff /\ is_boolean_term(S.terms, d[1])
     THEN skolemize_flat(two_implies(S, d[1], d[2], d[2], d[1]), FALSE)
     ELSE IF kind = "FORALL_TERM"
     THEN The({ [S |-> [v.S EXCEPT !.uvars = pop_uvars(@, n)], r |-> v.r]
                  : v \in {ef_skolemize_term([S EXCEPT !.uvars = push_uvars(@, SubSeq(d, 1, n))],
                                             d[n + 1])} })
     ELSE The({ Unless(v, ef_update_composite(v.S, unsigned_term(t), v.r))
                  : v \in {skolemize_children(S, d, 1, <<>>)} })

ef_skolemize_term(S, t) ==
  IF S.halted THEN [S |-> S, r |-> NULL_TERM]
  ELSE The({ [S |-> IF v.S.halted THEN v.S
                    ELSE [v.S EXCEPT !.calls = @ \cup {[t |-> t, uin |-> S.uvars,
                                                        uout |-> v.S.uvars]}],
              r |-> v.r]
               : v \in { IF term_is_atomic(S.terms, unsigned_term(t)) THEN [S |-> S, r |-> t]
                         ELSE IF is_neg_term(t) THEN ef_skolemize_neg(S, t)
                         ELSE ef_skolemize_pos(S, t) } })

ef_skolemize(S, t) == ef_skolemize_term(S, t)

(***************************************************************************)
(* Value table (exists_forall/ef_values.c)                                 *)
(*                                                                         *)
(* A value is a number, and the term convert_val gives for value v is      *)
(* ValTerm(v).  A witness is an atomic term, [f, args] with no argument,   *)
(* or the application of function f to the terms of the values args.       *)
(* The table is [map, priority, var_rep, status]: map[v] is the vector of  *)
(* the witnesses of v (empty when v has no record), priority the set of    *)
(* the records [t, p] of the priority map, var_rep[v] the representative   *)
(* of v or NoRep.  The type map takes no part in the choice of the         *)
(* representatives and is left out.                                        *)
(***************************************************************************)
MaxValues == 4

EfValues == 1..MaxValues

ValTerm(v) == [f |-> "val", args |-> <<v>>]

NoRep == [f |-> "none", args |-> <<>>]

ef_term_is_atomic(w) == w.args = <<>>

init_ef_table ==
  [map |-> [v \in EfValues |-> <<>>], priority |-> {},
   var_rep |-> [v \in EfValues |-> NoRep], status |-> "empty"]

reset_ef_table(vtable) == init_ef_table

has_priority(vtable, t) == \E e \in vtable.priority : e.t = t

priority_of(vtable, t) == (CHOOSE e \in vtable.priority : e.t = t).p

store_term_priority(vtable, var, priority) ==
  [vtable EXCEPT !.priority = {e \in @ : e.t # var} \cup {[t |-> var, p |-> priority]}]

store_rep(vtable, tvalue, var) ==
  IF vtable.var_rep[tvalue] = NoRep
  THEN [vtable EXCEPT !.var_rep[tvalue] = var]
  ELSE vtable

\* 1 + the sum of the priorities of the arguments from position i on, or 0
\* when an argument has no priority
RECURSIVE sum_priorities(_, _, _, _)
sum_priorities(vtable, args, i, result) ==
  IF i > Len(args) THEN result
  ELSE IF ~has_priority(vtable, ValTerm(args[i])) THEN 0
  ELSE sum_priorities(vtable, args, i + 1, result + priority_of(vtable, ValTerm(args[i])))

calculate_priority(vtable, xc) == sum_priorities(vtable, xc.args, 1, 1)

store_term_value(vtable, var, value) ==
  LET t1 == [vtable EXCEPT !.map[value] = Append(@, var)]
  IN IF ef_term_is_atomic(var)
     THEN store_rep(store_term_priority(store_term_priority(t1, var, 0), ValTerm(value), 0),
                    value, var)
     ELSE t1

\* the pairs [var, value] from position i on are stored
RECURSIVE store_values(_, _, _)
store_values(vtable, pairs, i) ==
  IF i > Len(pairs) THEN vtable
  ELSE store_values(store_term_value(vtable, pairs[i].var, pairs[i].value), pairs, i + 1)

\* the witnesses of tvalue from position i on are examined: [vtable, best_prio, best_x],
\* best_prio = -1 standing for UINT32_MAX
RECURSIVE scan_witnesses(_, _, _, _, _)
scan_witnesses(vtable, v, i, best_prio, best_x) ==
  IF i > Len(v) THEN [vtable |-> vtable, best_prio |-> best_prio, best_x |-> best_x]
  ELSE LET x == v[i]
           prio == calculate_priority(vtable, x)
       IN IF prio > 0
          THEN IF best_prio = -1 \/ prio < best_prio
               THEN scan_witnesses(store_term_priority(vtable, x, prio), v, i + 1, prio, x)
               ELSE scan_witnesses(store_term_priority(vtable, x, prio), v, i + 1,
                                   best_prio, best_x)
          ELSE scan_witnesses(vtable, v, i + 1, best_prio, best_x)

\* third pass of fill_ef_table: queue holds the values with no representative,
\* j of them have failed in a row, and m is the size of the array of the
\* queue less the number of values resolved: it stays above the number of
\* values in the queue.  When j reaches m the debug build aborts; the release
\* build goes on and no later pass over the queue can succeed, since the
\* table no longer changes.
RECURSIVE process_queue(_, _, _, _, _)
process_queue(vtable, queue, m, j, ndebug) ==
  IF queue = <<>> THEN [vtable EXCEPT !.status = "done"]
  ELSE LET tvalue == Head(queue)
           s == scan_witnesses(vtable, vtable.map[tvalue], 1, -1, NoRep)
           found == s.best_x # NoRep
           t2 == IF found
                 THEN store_rep(store_term_priority(s.vtable, ValTerm(tvalue), s.best_prio),
                                tvalue, s.best_x)
                 ELSE s.vtable
           m2 == IF found THEN m - 1 ELSE m
           j2 == IF found THEN 0 ELSE j + 1
           q2 == IF found THEN Tail(queue) ELSE Append(Tail(queue), tvalue)
       IN IF j2 >= m2
          THEN [t2 EXCEPT !.status = IF ndebug THEN "diverged" ELSE "aborted"]
          ELSE process_queue(t2, q2, m2, j2, ndebug)

\* the size of a hash map of n records: the least power of two above n
RECURSIVE ptr_hmap_size_from(_, _)
ptr_hmap_size_from(n, size) == IF size > n THEN size ELSE ptr_hmap_size_from(n, 2 * size)

ptr_hmap_size(n) == ptr_hmap_size_from(n, 2)

\* the values with a record and no representative
unresolved(vtable) ==
  {v \in EfValues : vtable.map[v] # <<>> /\ vtable.var_rep[v] = NoRep}

\* tops: the pairs [var, value] of the top-level terms; funs: the pairs of
\* the function instances, in the order of the function maps; queue: the
\* unresolved values in the order of the records of the hash map
fill_ef_table(vtable, tops, funs, queue, ndebug) ==
  LET t1 == store_values(vtable, tops, 1)
      t2 == store_values(t1, funs, 1)
      nelems == Cardinality({v \in EfValues : t2.map[v] # <<>>})
  IN process_queue(t2, queue, ptr_hmap_size(nelems), 0, ndebug)

\* the witness of value with the least priority, the first one when none
\* has a priority: [best_prio, best_x], from position i on
RECURSIVE best_witness(_, _, _, _, _)
best_witness(vtable, v, i, best_prio, best_x) ==
  IF i > Len(v) THEN best_x
  ELSE LET x == v[i]
           better == has_priority(vtable, x)
                     /\ (best_prio = -1 \/ priority_of(vtable, x) < best_prio)
           b1 == IF better THEN x ELSE best_x
       IN best_witness(vtable, v, i + 1,
                       IF better THEN priority_of(vtable, x) ELSE best_prio,
                       IF b1 = NoRep THEN x ELSE b1)

\* ef_get_value_rep returns [vtable, r, requests, circular, failed]: r is the
\* term returned, where an application has the terms of its arguments as
\* args; circular is set when "Circular dependency encountered" is printed
\* and failed when another assert(0) is met.  A debug build aborts at these
\* points, a release build goes on as modelled.
RECURSIVE ef_get_value_rep(_, _, _)
RECURSIVE ef_get_args_rep(_, _, _, _, _)
ef_get_value_rep(vtable, value, requests) ==
  IF vtable.map[value] = <<>>
  THEN [vtable |-> vtable, r |-> ValTerm(value), requests |-> requests,
        circular |-> FALSE, failed |-> TRUE]
  ELSE LET norep == vtable.var_rep[value] = NoRep
           best_x == IF norep
                     THEN best_witness(vtable, vtable.map[value], 1, -1, NoRep)
                     ELSE vtable.var_rep[value]
           t1 == IF norep THEN store_rep(vtable, value, best_x) ELSE vtable
       IN IF ef_term_is_atomic(best_x)
          THEN [vtable |-> t1, r |-> best_x, requests |-> requests,
                circular |-> FALSE, failed |-> norep]
          ELSE LET a == ef_get_args_rep(t1, best_x.args, 1, requests \cup {value},
                                        [vtable |-> t1, r |-> <<>>,
                                         requests |-> requests \cup {value},
                                         circular |-> FALSE, failed |-> norep])
               IN [a EXCEPT !.r = [f |-> best_x.f, args |-> a.r]]

\* the loop over the arguments of the representative, from position i on;
\* acc.r holds the terms of the arguments already replaced
ef_get_args_rep(vtable, args, i, requests, acc) ==
  IF i > Len(args) THEN acc
  ELSE LET f == args[i]
           present == f \in requests
           frep == ef_get_value_rep(vtable, f, requests)
       IN ef_get_args_rep(frep.vtable, args, i + 1, frep.requests,
                          [vtable |-> frep.vtable, r |-> Append(acc.r, frep.r),
                           requests |-> frep.requests,
                           circular |-> acc.circular \/ present \/ frep.circular,
                           failed |-> acc.failed \/ frep.failed])

ef_get_value(vtable, value) == ef_get_value_rep(vtable, value, {})

(***************************************************************************)
(* Specification Spec: the API called with valid and invalid arguments     *)
(***************************************************************************)
\* argument values tried: NULL_TERM and every valid reference to a term
\* other than the boolean constant
TermPool(tbl) == {NULL_TERM} \cup {t \in 4..(2 * Len(tbl) + 1) : ~bad_term(tbl, t)}

\* NULL_TYPE, bool and the types added to the three predefined ones
\* (arithmetic terms are not built by this model)
TypePool(tys) == {NULL_TYPE, bool_id} \cup 3..(Len(tys) - 1)

\* arrays of at most MaxArgs elements, and the constant arrays of length
\* MaxArgs + 1
ArgArrays(S) == SeqsOf(S, 0, MaxArgs) \cup {[i \in 1..(MaxArgs + 1) |-> t] : t \in S}

\* the tables after yices_init
G0 == [types |-> init_type_table, terms |-> init_term_table, error |-> init_error]

\* an uninterpreted type U, the type of bit-vectors of size 1, U -> bool,
\* and one uninterpreted term of each of bool, U, U -> bool, bv[1]
Prelude ==
  LET g1 == yices_new_uninterpreted_type(G0)
      g2 == yices_bv_type(g1, 1)
      g3 == yices_function_type(g2, 1, <<g1.r>>, bool_id)
      g4 == yices_new_uninterpreted_term(g3, bool_id)
      g5 == yices_new_uninterpreted_term(g4, g1.r)
      g6 == yices_new_uninterpreted_term(g5, g3.r)
  IN yices_new_uninterpreted_term(g6, g2.r)

\* no skolemizer has been initialized; runs counts the calls of ef_skolemize
NoSk == [inited |-> FALSE, flatten_ite |-> FALSE, flatten_iff |-> FALSE, uvars |-> <<>>,
         existentials |-> <<>>, num_skolem |-> 0, halted |-> FALSE, clash |-> FALSE,
         calls |-> {}, bodies |-> <<>>, runs |-> 0, names |-> <<>>]

Init ==
  /\ types = Prelude.types
  /\ terms = Prelude.terms
  /\ error = Prelude.error
  /\ buffers = <<>>
  /\ sk = NoSk
  /\ ef = init_ef_table
  /\ last = NoCall
  /\ fails = <<>>
  /\ ncalls = 0

\* a call can be made once the previous one has returned
Idle == last.op = "none"

\* a call can be made now
Ready == Idle /\ ncalls < MaxCalls

BvType ==
  /\ Idle
  /\ \E size \in 0..(YICES_MAX_BVSIZE + 1) : Do(MkCall("yices_bv_type", <<>>, size, 0))

NewUninterpretedType ==
  /\ Idle
  /\ Do(MkCall("yices_new_uninterpreted_type", <<>>, 0, 0))

NewScalarType ==
  /\ Idle
  /\ \E card \in 0..2 : Do(MkCall("yices_new_scalar_type", <<>>, card, 0))

FunctionType ==
  /\ Ready
  /\ \E dom \in SeqsOf(TypePool(types), 0, 1), range \in TypePool(types) :
       Do(MkCall("yices_function_type", dom, range, 0))

Constant ==
  /\ Ready
  /\ \E tau \in TypePool(types), index \in -1..1 :
       Do(MkCall("yices_constant", <<>>, tau, index))

NewUninterpretedTerm ==
  /\ Ready
  /\ \E tau \in TypePool(types) :
       Do(MkCall("yices_new_uninterpreted_term", <<>>, tau, 0))

Application ==
  /\ Ready
  /\ \E fun \in TermPool(terms), arg \in SeqsOf(TermPool(terms), 0, 2) :
       Do(MkCall("yices_application", arg, fun, 0))

Ite ==
  /\ Ready
  /\ \E a \in SeqsOf(TermPool(terms), 3, 3) :
       Do(MkCall("yices_ite", a, 0, 0))

Eq ==
  /\ Ready
  /\ \E x \in TermPool(terms), y \in TermPool(terms) :
       Do(MkCall("yices_eq", <<>>, x, y))

Neq ==
  /\ Ready
  /\ \E x \in TermPool(terms), y \in TermPool(terms) :
       Do(MkCall("yices_neq", <<>>, x, y))

Or ==
  /\ Ready
  /\ \E arg \in ArgArrays(TermPool(terms)) :
       Do(MkCall("yices_or", arg, 0, 0))

Not ==
  /\ Ready
  /\ \E x \in TermPool(terms) :
       Do(MkCall("yices_not", <<>>, x, 0))

Distinct ==
  /\ Ready
  /\ \E arg \in ArgArrays(TermPool(terms)) :
       Do(MkCall("yices_distinct", arg, 0, 0))

NewBvarithBuffer ==
  /\ Len(buffers) < MaxBuffers
  /\ \E n \in 1..YICES_MAX_BVSIZE : Do(MkCall("yices_new_bvarith_buffer", <<>>, n, 0))

BvarithAddTerm ==
  /\ Ready
  /\ \E i \in 1..Len(buffers), t \in TermPool(terms) :
       Do(MkCall("yices_bvarith_add_term", <<>>, i, t))

BvarithMulTerm ==
  /\ Ready
  /\ \E i \in 1..Len(buffers), t \in TermPool(terms) :
       Do(MkCall("yices_bvarith_mul_term", <<>>, i, t))

ClearError ==
  /\ last.op = "none"
  /\ error' = yices_clear_error(error)
  /\ fails' = <<>>
  /\ UNCHANGED <<types, terms, buffers, sk, last, ncalls, ef>>

Next ==
  \/ BvType
  \/ NewUninterpretedType
  \/ NewScalarType
  \/ FunctionType
  \/ Constant
  \/ NewUninterpretedTerm
  \/ Application
  \/ Ite
  \/ Eq
  \/ Neq
  \/ Or
  \/ Not
  \/ Distinct
  \/ NewBvarithBuffer
  \/ BvarithAddTerm
  \/ BvarithMulTerm
  \/ ClearError
  \/ Return

Spec == Init /\ [][Next]_vars

(***************************************************************************)
(* Properties of the API, checked under Spec                               *)
(***************************************************************************)
TypeConstructors ==
  {"yices_bv_type", "yices_new_uninterpreted_type", "yices_new_scalar_type",
   "yices_function_type"}

TermConstructors ==
  {"yices_constant", "yices_new_uninterpreted_term", "yices_variable",
   "yices_application", "yices_ite", "yices_eq", "yices_neq", "yices_bveq_atom",
   "yices_or", "yices_and", "yices_not", "yices_xor", "yices_iff", "yices_implies",
   "yices_distinct", "yices_forall", "yices_exists"}

\* the constructors that allocate a new object at every call
FreshConstructors ==
  {"yices_new_uninterpreted_type", "yices_new_scalar_type", "yices_new_uninterpreted_term"}

\* the call that has just returned
LastCall == MkCall(last.op, last.a, last.x, last.y)

\* the call that has just returned, made once more in the current state
Again == Apply(G, LastCall)

\* other calls a client may make before it repeats a call: they allocate a
\* type, allocate terms, or fail
Between ==
  { MkCall("yices_bv_type", <<>>, YICES_MAX_BVSIZE, 0),
    MkCall("yices_new_uninterpreted_term", <<>>, bool_id, 0),
    MkCall("yices_not", <<>>, last.r, 0),
    MkCall("yices_or", <<last.r, NULL_TERM>>, 0, 0) }

\* the state after call c
After(c) ==
  The({ [types |-> v.types, terms |-> v.terms, error |-> v.error, buffers |-> v.buffers]
          : v \in {Apply(G, c)} })

\* the call that has just returned, made once more after call c
AgainAfter(c) == The({ [before |-> g, res |-> Apply(g, LastCall)] : g \in {After(c)} })

SameAgain ==
  /\ Again.r = last.r /\ Again.types = types /\ Again.terms = terms
  /\ \A c \in Between :
        \E v \in {AgainAfter(c)} :
           /\ v.res.r = last.r
           /\ v.res.types = v.before.types
           /\ v.res.terms = v.before.terms

\* C1 (as stated): every type or term constructor, called a second time
\* with the same arguments, at once or after other calls, returns the
\* reference it returned the first time.
C1_InterningAll ==
  (last.op \in TypeConstructors \cup TermConstructors /\ ~Failed(last.r))
     => /\ Again.r = last.r
        /\ \A c \in Between : AgainAfter(c).res.r = last.r

\* C1 (amended): every type or term constructor other than
\* yices_new_uninterpreted_type, yices_new_scalar_type and
\* yices_new_uninterpreted_term, called a second time with the same
\* arguments, at once or after other calls, returns the reference it
\* returned the first time and allocates nothing.
C1_Interning ==
  (/\ last.op \in (TypeConstructors \cup TermConstructors) \ FreshConstructors
   /\ ~Failed(last.r))
     => SameAgain

\* a call of yices_or has allocated a new OR term, and the same call made
\* again returns that term
C1_Witness ==
  /\ last.op = "yices_or"
  /\ ~Failed(last.r)
  /\ index_of(last.r) = Len(terms)
  /\ terms[Len(terms)].kind = "OR_TERM"
  /\ SameAgain

\* C3: a call that fails leaves the type table, the term table and every
\* buffer as they were before the call.
C3_FailedCallKeepsState ==
  [][(last'.op # "none" /\ Failed(last'.r))
       => (types' = types /\ terms' = terms /\ buffers' = buffers)]_vars

\* a buffer has been allocated and its multiplication by an invalid term has
\* failed
C3_Witness ==
  /\ last.op = "yices_bvarith_mul_term"
  /\ Failed(last.r)
  /\ Len(buffers) = 1
  /\ error.code = "INVALID_TERM"

\* C4 (as stated): the error code is the one of the first call that failed
\* since the report was last cleared.
C4_FirstFailureKept ==
  error.code = IF fails = <<>> THEN "NO_ERROR" ELSE fails[1]

\* C4 (amended): the error code is the one of the most recent call that
\* failed since the report was last cleared, NO_ERROR if none failed.
C4_LastFailureKept ==
  error.code = IF fails = <<>> THEN "NO_ERROR" ELSE fails[Len(fails)]

\* two calls have failed with different codes and the report holds the
\* code of the second
C4_Witness ==
  /\ Len(fails) = 2
  /\ fails[1] # fails[2]
  /\ error.code = fails[2]

\* position (from 0) of the first NULL_TERM of the array argument, -1 if
\* the NULL_TERM is a scalar argument
NullIsNull(t) == t = NULL_TERM

ExpectedIndex ==
  IF last.op \in {"yices_or", "yices_and", "yices_distinct"} THEN FirstPos(last.a, NullIsNull) - 1
  ELSE IF last.op \in {"yices_application", "yices_forall", "yices_exists"}
          /\ last.x # NULL_TERM THEN FirstPos(last.a, NullIsNull) - 1
  ELSE -1

\* the term arguments of the call that has just returned
TermArgs ==
  IF last.op \in {"yices_or", "yices_and", "yices_distinct", "yices_ite"} THEN Range(last.a)
  ELSE IF last.op \in {"yices_application", "yices_forall", "yices_exists"}
  THEN Range(last.a) \cup {last.x}
  ELSE IF last.op = "yices_not" THEN {last.x}
  ELSE IF last.op \in {"yices_eq", "yices_neq", "yices_bveq_atom", "yices_xor",
                       "yices_iff", "yices_implies"} THEN {last.x, last.y}
  ELSE {}

\* C5: a term constructor that receives NULL_TERM among its term arguments
\* fails, returns NULL_TERM and reports INVALID_TERM with term1 = NULL_TERM
\* and index = the position of the NULL_TERM in the array argument, -1 if
\* it is not in an array.
C5_NullArgument ==
  (last.op \in TermConstructors /\ NULL_TERM \in TermArgs)
     => /\ last.r = NULL_TERM
        /\ error.code = "INVALID_TERM"
        /\ error.term1 = NULL_TERM
        /\ error.index = ExpectedIndex

(***************************************************************************)
(* The boolean constructors applied to boolean terms: specification        *)
(* SpecBool                                                                *)
(***************************************************************************)
\* a boolean atom p, bit-vector atoms x, y, z of size 1 and the atoms
\* (bveq x y), (bveq x z)
PreludeBool ==
  LET g1 == yices_bv_type(G0, 1)
      g3 == yices_new_uninterpreted_term(g1, bool_id)
      g4 == yices_new_uninterpreted_term(g3, g1.r)
      g5 == yices_new_uninterpreted_term(g4, g1.r)
      g6 == yices_new_uninterpreted_term(g5, g1.r)
      g7 == yices_bveq_atom(g6, g4.r, g5.r)
  IN yices_bveq_atom(g7, g4.r, g6.r)

InitBool ==
  /\ types = PreludeBool.types
  /\ terms = PreludeBool.terms
  /\ error = PreludeBool.error
  /\ buffers = <<>>
  /\ sk = NoSk
  /\ ef = init_ef_table
  /\ last = NoCall
  /\ fails = <<>>
  /\ ncalls = 0

\* the boolean terms of the table, of both polarities
BoolPool(tbl) == {t \in 2..(2 * Len(tbl) + 1) : ~bad_term(tbl, t) /\ is_boolean_term(tbl, t)}

BoolNot ==
  /\ Ready
  /\ \E x \in BoolPool(terms) :
       Do(MkCall("yices_not", <<>>, x, 0))

BoolOr ==
  /\ Ready
  /\ \E arg \in SeqsOf(BoolPool(terms), 0, MaxArgs) :
       Do(MkCall("yices_or", arg, 0, 0))

BoolAnd ==
  /\ Ready
  /\ \E arg \in SeqsOf(BoolPool(terms), 0, MaxArgs) :
       Do(MkCall("yices_and", arg, 0, 0))

BoolIff ==
  /\ Ready
  /\ \E x \in BoolPool(terms), y \in BoolPool(terms) :
       Do(MkCall("yices_iff", <<>>, x, y))

BoolXor ==
  /\ Ready
  /\ \E x \in BoolPool(terms), y \in BoolPool(terms) :
       Do(MkCall("yices_xor", <<>>, x, y))

BoolImplies ==
  /\ Ready
  /\ \E x \in BoolPool(terms), y \in BoolPool(terms) :
       Do(MkCall("yices_implies", <<>>, x, y))

BoolIte ==
  /\ Ready
  /\ \E a \in SeqsOf(BoolPool(terms), 3, 3) :
       Do(MkCall("yices_ite", a, 0, 0))

NextBool ==
  \/ BoolNot
  \/ BoolOr
  \/ BoolAnd
  \/ BoolIff
  \/ BoolXor
  \/ BoolImplies
  \/ BoolIte
  \/ Return

SpecBool == InitBool /\ [][NextBool]_vars

\* the atoms of the table and the truth assignments to them (a bit-vector
\* of size 1 is its bit)
Atoms(tbl) == {i \in 1..Len(tbl) : tbl[i].kind = "UNINTERPRETED_TERM"}

Assignments(tbl) == [Atoms(tbl) -> BOOLEAN]

\* value of the term of index i, then of the term t, under assignment val
RECURSIVE EvalIndex(_, _, _)
EvalIndex(tbl, i, val) ==
  LET d == tbl[i]
      E(t) == (EvalIndex(tbl, index_of(t), val) # is_neg_term(t))
  IN CASE d.kind = "CONSTANT_TERM" -> TRUE
       [] d.kind = "UNINTERPRETED_TERM" -> val[i]
       [] d.kind = "OR_TERM" -> \E k \in 1..Len(d.args) : E(d.args[k])
       [] d.kind = "EQ_TERM" -> E(d.args[1]) = E(d.args[2])
       [] d.kind = "BV_EQ_ATOM" -> E(d.args[1]) = E(d.args[2])
       [] d.kind = "ITE_TERM" -> IF E(d.args[1]) THEN E(d.args[2]) ELSE E(d.args[3])

Eval(tbl, t, val) == (EvalIndex(tbl, index_of(t), val) # is_neg_term(t))

\* value of the connective of the call that has just returned, applied to
\* the values of its arguments
Naive(val) ==
  LET E(t) == Eval(terms, t, val)
  IN CASE last.op = "yices_not" -> ~E(last.x)
       [] last.op = "yices_or" -> \E k \in 1..Len(last.a) : E(last.a[k])
       [] last.op = "yices_and" -> \A k \in 1..Len(last.a) : E(last.a[k])
       [] last.op = "yices_iff" -> E(last.x) = E(last.y)
       [] last.op = "yices_xor" -> E(last.x) # E(last.y)
       [] last.op = "yices_implies" -> E(last.x) => E(last.y)
       [] last.op = "yices_ite" -> IF E(last.a[1]) THEN E(last.a[2]) ELSE E(last.a[3])

BoolConnectives ==
  {"yices_not", "yices_or", "yices_and", "yices_iff", "yices_xor", "yices_implies", "yices_ite"}

\* C2: the term returned by not, or, and, iff, xor, implies and boolean ite
\* has, under every truth assignment to the atoms, the value of the
\* connective applied to the values of the arguments.
C2_SemanticPreservation ==
  (last.op \in BoolConnectives /\ ~Failed(last.r))
     => \A val \in Assignments(terms) : Eval(terms, last.r, val) = Naive(val)

\* an if-then-else of two bit-vector equalities sharing a side has been
\* lifted to an equality with an if-then-else of bit-vectors
C2_Witness ==
  /\ last.op = "yices_ite"
  /\ ~Failed(last.r)
  /\ term_kind(terms, last.r) = "BV_EQ_ATOM"
  /\ index_of(last.r) = Len(terms)
  /\ \A val \in Assignments(terms) : Eval(terms, last.r, val) = Naive(val)

(***************************************************************************)
(* Specification SpecArith: arithmetic terms and arithmetic buffers        *)
(***************************************************************************)
MaxArithCalls == 3

\* two integer variables and a boolean one
PreludeArith ==
  LET g1 == yices_new_uninterpreted_term(G0, int_id)
      g2 == yices_new_uninterpreted_term(g1, int_id)
  IN yices_new_uninterpreted_term(g2, bool_id)

InitArith ==
  /\ types = PreludeArith.types
  /\ terms = PreludeArith.terms
  /\ error = PreludeArith.error
  /\ buffers = <<>>
  /\ sk = NoSk
  /\ ef = init_ef_table
  /\ last = NoCall
  /\ fails = <<>>
  /\ ncalls = 0

ReadyArith == Idle /\ ncalls < MaxArithCalls

\* the terms a call is made on: NULL_TERM and the valid terms but the
\* boolean constants
ArithPool(tbl) == {NULL_TERM} \cup {t \in 4..(2 * Len(tbl) + 1) : ~bad_term(tbl, t)}

\* the call c is made and returns
DoArith(c) ==
  /\ \E res \in {Apply(G, c)} :
        /\ types' = res.types
        /\ terms' = res.terms
        /\ error' = res.error
        /\ buffers' = res.buffers
        /\ last' = [op |-> c.op, a |-> c.a, x |-> c.x, y |-> c.y, r |-> res.r]
        /\ fails' = IF Failed(res.r) THEN Append(fails, FailureCode(G, c)) ELSE fails
  /\ ncalls' = ncalls + 1
  /\ UNCHANGED <<sk, ef>>

ArithConstant ==
  /\ ReadyArith
  /\ \E a \in {0, 1} : DoArith(MkCall("yices_arith_constant", <<>>, a, 0))

ArithNot ==
  /\ ReadyArith
  /\ \E t \in ArithPool(terms) \cup {true_term, false_term} :
       DoArith(MkCall("yices_not", <<>>, t, 0))

Add ==
  /\ ReadyArith
  /\ \E t1 \in ArithPool(terms), t2 \in ArithPool(terms) :
       DoArith(MkCall("yices_add", <<>>, t1, t2))

Sub ==
  /\ ReadyArith
  /\ \E t1 \in ArithPool(terms), t2 \in ArithPool(terms) :
       DoArith(MkCall("yices_sub", <<>>, t1, t2))

ArithNeg ==
  /\ ReadyArith
  /\ \E t1 \in ArithPool(terms) : DoArith(MkCall("yices_neg", <<>>, t1, 0))

Mul ==
  /\ ReadyArith
  /\ \E t1 \in ArithPool(terms), t2 \in ArithPool(terms) :
       DoArith(MkCall("yices_mul", <<>>, t1, t2))

Square ==
  /\ ReadyArith
  /\ \E t1 \in ArithPool(terms) : DoArith(MkCall("yices_square", <<>>, t1, 0))

NewArithBuffer ==
  /\ ReadyArith
  /\ Len(buffers) < MaxBuffers
  /\ DoArith(MkCall("yices_new_arith_buffer", <<>>, 0, 0))

ArithAddTerm ==
  /\ ReadyArith
  /\ \E i \in 1..Len(buffers), t \in ArithPool(terms) :
       DoArith(MkCall("yices_arith_add_term", <<>>, i, t))

ArithMulTerm ==
  /\ ReadyArith
  /\ \E i \in 1..Len(buffers), t \in ArithPool(terms) :
       DoArith(MkCall("yices_arith_mul_term", <<>>, i, t))

ArithMulBuffer ==
  /\ ReadyArith
  /\ \E i \in 1..Len(buffers), j \in 1..Len(buffers) :
       DoArith(MkCall("yices_arith_mul_buffer", <<>>, i, j))

ArithSquare ==
  /\ ReadyArith
  /\ \E i \in 1..Len(buffers) : DoArith(MkCall("yices_arith_square", <<>>, i, 0))

ArithTerm ==
  /\ ReadyArith
  /\ \E i \in 1..Len(buffers) : DoArith(MkCall("yices_arith_term", <<>>, i, 0))

NextArith ==
  \/ ArithConstant
  \/ ArithNot
  \/ Add
  \/ Sub
  \/ ArithNeg
  \/ Mul
  \/ Square
  \/ NewArithBuffer
  \/ ArithAddTerm
  \/ ArithMulTerm
  \/ ArithMulBuffer
  \/ ArithSquare
  \/ ArithTerm
  \/ Return

SpecArith == InitArith /\ [][NextArith]_vars

(***************************************************************************)
(* Specification SpecNorm: the constructors whose terms keep their         *)
(* arguments in order, called on valid arguments                           *)
(***************************************************************************)
\* an uninterpreted type U and the type of bit-vectors of size 1; boolean
\* terms p, q; a, b, c of type U; v, w of type bv[1]; integers x, y
PreludeNorm ==
  LET g1 == yices_new_uninterpreted_type(G0)
      g2 == yices_bv_type(g1, 1)
      p == yices_new_uninterpreted_term(g2, bool_id)
      q == yices_new_uninterpreted_term(p, bool_id)
      a == yices_new_uninterpreted_term(q, g1.r)
      b == yices_new_uninterpreted_term(a, g1.r)
      c == yices_new_uninterpreted_term(b, g1.r)
      v == yices_new_uninterpreted_term(c, g2.r)
      w == yices_new_uninterpreted_term(v, g2.r)
      x == yices_new_uninterpreted_term(w, int_id)
  IN yices_new_uninterpreted_term(x, int_id)

InitNorm ==
  /\ types = PreludeNorm.types
  /\ terms = PreludeNorm.terms
  /\ error = PreludeNorm.error
  /\ buffers = <<>>
  /\ sk = NoSk
  /\ ef = init_ef_table
  /\ last = NoCall
  /\ fails = <<>>
  /\ ncalls = 0

\* the terms that are not boolean
DataPool(tbl) == {t \in 4..(2 * Len(tbl) + 1) : ~bad_term(tbl, t) /\ ~is_boolean_term(tbl, t)}

NormOr ==
  /\ Ready
  /\ \E a \in SeqsOf(BoolPool(terms), 1, MaxArgs) : Do(MkCall("yices_or", a, 0, 0))

NormAnd ==
  /\ Ready
  /\ \E a \in SeqsOf(BoolPool(terms), 1, MaxArgs) : Do(MkCall("yices_and", a, 0, 0))

NormIte ==
  /\ Ready
  /\ \E a \in SeqsOf(BoolPool(terms), 3, 3) : Do(MkCall("yices_ite", a, 0, 0))

NormIff ==
  /\ Ready
  /\ \E x \in BoolPool(terms), y \in BoolPool(terms) : Do(MkCall("yices_iff", <<>>, x, y))

NormXor ==
  /\ Ready
  /\ \E x \in BoolPool(terms), y \in BoolPool(terms) : Do(MkCall("yices_xor", <<>>, x, y))

NormEq ==
  /\ Ready
  /\ \E x \in BoolPool(terms) \cup DataPool(terms), y \in BoolPool(terms) \cup DataPool(terms) :
       Do(MkCall("yices_eq", <<>>, x, y))

NormNeq ==
  /\ Ready
  /\ \E x \in DataPool(terms), y \in DataPool(terms) : Do(MkCall("yices_neq", <<>>, x, y))

NormDistinct ==
  /\ Ready
  /\ \E a \in SeqsOf(DataPool(terms), 1, MaxArgs) : Do(MkCall("yices_distinct", a, 0, 0))

NormAritheq ==
  /\ Ready
  /\ \E x \in DataPool(terms), y \in DataPool(terms) :
       Do(MkCall("yices_aritheq_atom", <<>>, x, y))

NormBveq ==
  /\ Ready
  /\ \E x \in DataPool(terms), y \in DataPool(terms) :
       Do(MkCall("yices_bveq_atom", <<>>, x, y))

NextNorm ==
  \/ NormOr
  \/ NormAnd
  \/ NormIte
  \/ NormIff
  \/ NormXor
  \/ NormEq
  \/ NormNeq
  \/ NormDistinct
  \/ NormAritheq
  \/ NormBveq
  \/ Return

SpecNorm == InitNorm /\ [][NextNorm]_vars

(***************************************************************************)
(* Calls on one bit-vector logic buffer                                    *)
(***************************************************************************)
MaxBvlCalls == 5

\* the bit-vector types of size 1 and 2, a variable of each, and a boolean
PreludeBvl ==
  LET g1 == yices_bv_type(G0, 1)
      g2 == yices_new_uninterpreted_term(g1, g1.r)
      g3 == yices_bv_type(g2, 2)
      g4 == yices_new_uninterpreted_term(g3, g3.r)
  IN yices_new_uninterpreted_term(g4, bool_id)

InitBvl ==
  /\ types = PreludeBvl.types
  /\ terms = PreludeBvl.terms
  /\ error = PreludeBvl.error
  /\ buffers = <<>>
  /\ sk = NoSk
  /\ ef = init_ef_table
  /\ last = NoCall
  /\ fails = <<>>
  /\ ncalls = 0

ReadyBvl == Idle /\ ncalls < MaxBvlCalls

\* the bit-vector constants of 1 to YICES_MAX_BVSIZE bits
BvConstants == SeqsOf({0, 1}, 1, YICES_MAX_BVSIZE)

\* the call c is made and returns
DoBvl(c) ==
  /\ \E res \in {Apply(G, c)} :
        /\ types' = res.types
        /\ terms' = res.terms
        /\ error' = res.error
        /\ buffers' = res.buffers
        /\ last' = [op |-> c.op, a |-> c.a, x |-> c.x, y |-> c.y, r |-> res.r]
        /\ fails' = IF Failed(res.r) THEN Append(fails, FailureCode(G, c)) ELSE fails
  /\ ncalls' = ncalls + 1
  /\ UNCHANGED <<sk, ef>>

NewBvlogicBuffer ==
  /\ ReadyBvl
  /\ Len(buffers) < MaxBuffers
  /\ DoBvl(MkCall("yices_new_bvlogic_buffer", <<>>, 0, 0))

BvlogicReset ==
  /\ ReadyBvl
  /\ \E i \in 1..Len(buffers) : DoBvl(MkCall("yices_bvlogic_reset", <<>>, i, 0))

BvlogicSetConst ==
  /\ ReadyBvl
  /\ \E i \in 1..Len(buffers), c \in BvConstants :
       DoBvl(MkCall("yices_bvlogic_set_const", c, i, 0))

BvlogicSetTerm ==
  /\ ReadyBvl
  /\ \E i \in 1..Len(buffers), t \in ArithPool(terms) :
       DoBvl(MkCall("yices_bvlogic_set_term", <<>>, i, t))

BvlogicNot ==
  /\ ReadyBvl
  /\ \E i \in 1..Len(buffers) : DoBvl(MkCall("yices_bvlogic_not", <<>>, i, 0))

BvlogicAndConst ==
  /\ ReadyBvl
  /\ \E i \in 1..Len(buffers), c \in BvConstants :
       DoBvl(MkCall("yices_bvlogic_and_const", c, i, 0))

\* the buffer must not be empty; y records its size before the call
BvlogicGetTerm ==
  /\ ReadyBvl
  /\ \E i \in 1..Len(buffers) :
       /\ buffers[i].nbits > 0
       /\ DoBvl(MkCall("bvlogic_buffer_get_term", <<>>, i, buffers[i].nbits))

NextBvl ==
  \/ NewBvlogicBuffer
  \/ BvlogicReset
  \/ BvlogicSetConst
  \/ BvlogicSetTerm
  \/ BvlogicNot
  \/ BvlogicAndConst
  \/ BvlogicGetTerm
  \/ Return

SpecBvl == InitBvl /\ [][NextBvl]_vars

(***************************************************************************)
(* Calls of the constructors on ground terms                               *)
(***************************************************************************)
\* a scalar type of three elements, its constants, and two variables of
\* this type for the quantifiers
PreludeGround ==
  LET g1 == yices_new_scalar_type(G0, 3)
      c0 == yices_constant(g1, g1.r, 0)
      c1 == yices_constant(c0, g1.r, 1)
      c2 == yices_constant(c1, g1.r, 2)
      x0 == yices_variable(c2, g1.r, 0)
  IN yices_variable(x0, g1.r, 1)

InitGround ==
  /\ types = PreludeGround.types
  /\ terms = PreludeGround.terms
  /\ error = PreludeGround.error
  /\ buffers = <<>>
  /\ sk = NoSk
  /\ ef = init_ef_table
  /\ last = NoCall
  /\ fails = <<>>
  /\ ncalls = 0

\* term t mentions no variable and no uninterpreted symbol
RECURSIVE GroundTerm(_, _)
GroundTerm(tbl, t) ==
  LET kind == index_kind(tbl, t)
      args == term_args(tbl, t)
  IN CASE kind = "CONSTANT_TERM" -> TRUE
       [] kind \in {"OR_TERM", "EQ_TERM", "ITE_TERM", "DISTINCT_TERM"} ->
            \A i \in 1..Len(args) : GroundTerm(tbl, args[i])
       [] kind = "FORALL_TERM" -> GroundTerm(tbl, args[Len(args)])
       [] OTHER -> FALSE

GroundPool(tbl) == {t \in 2..(2 * Len(tbl) + 1) : ~bad_term(tbl, t) /\ GroundTerm(tbl, t)}

VarPool(tbl) == {t \in 2..(2 * Len(tbl) + 1) : ~bad_term(tbl, t) /\ term_kind(tbl, t) = "VARIABLE"}

GroundNot ==
  /\ Ready
  /\ \E t \in GroundPool(terms) : Do(MkCall("yices_not", <<>>, t, 0))

GroundOr ==
  /\ Ready
  /\ \E a \in SeqsOf(GroundPool(terms), 1, MaxArgs) : Do(MkCall("yices_or", a, 0, 0))

GroundAnd ==
  /\ Ready
  /\ \E a \in SeqsOf(GroundPool(terms), 1, MaxArgs) : Do(MkCall("yices_and", a, 0, 0))

GroundIff ==
  /\ Ready
  /\ \E t1 \in GroundPool(terms), t2 \in GroundPool(terms) :
       Do(MkCall("yices_iff", <<>>, t1, t2))

GroundXor ==
  /\ Ready
  /\ \E t1 \in GroundPool(terms), t2 \in GroundPool(terms) :
       Do(MkCall("yices_xor", <<>>, t1, t2))

GroundImplies ==
  /\ Ready
  /\ \E t1 \in GroundPool(terms), t2 \in GroundPool(terms) :
       Do(MkCall("yices_implies", <<>>, t1, t2))

GroundIte ==
  /\ Ready
  /\ \E a \in SeqsOf(GroundPool(terms), 3, 3) : Do(MkCall("yices_ite", a, 0, 0))

GroundEq ==
  /\ Ready
  /\ \E t1 \in GroundPool(terms), t2 \in GroundPool(terms) :
       Do(MkCall("yices_eq", <<>>, t1, t2))

GroundNeq ==
  /\ Ready
  /\ \E t1 \in GroundPool(terms), t2 \in GroundPool(terms) :
       Do(MkCall("yices_neq", <<>>, t1, t2))

GroundDistinct ==
  /\ Ready
  /\ \E a \in SeqsOf(GroundPool(terms), 1, MaxArgs) : Do(MkCall("yices_distinct", a, 0, 0))

GroundForall ==
  /\ Ready
  /\ \E v \in SeqsOf(VarPool(terms), 1, YICES_MAX_VARS), body \in GroundPool(terms) :
       Do(MkCall("yices_forall", v, body, 0))

GroundExists ==
  /\ Ready
  /\ \E v \in SeqsOf(VarPool(terms), 1, YICES_MAX_VARS), body \in GroundPool(terms) :
       Do(MkCall("yices_exists", v, body, 0))

NextGround ==
  \/ GroundNot
  \/ GroundOr
  \/ GroundAnd
  \/ GroundIff
  \/ GroundXor
  \/ GroundImplies
  \/ GroundIte
  \/ GroundEq
  \/ GroundNeq
  \/ GroundDistinct
  \/ GroundForall
  \/ GroundExists
  \/ Return

SpecGround == InitGround /\ [][NextGround]_vars

(***************************************************************************)
(* Calls of yices_distinct                                                 *)
(***************************************************************************)
\* a scalar type of two elements and its constants k0, k1; an uninterpreted
\* type with the constants u0, u1, u2 and the uninterpreted term a; the
\* integer x and the polynomials 1, x + 1 and x + 2
PreludeDistinct ==
  LET g1 == yices_new_scalar_type(G0, 2)
      k0 == yices_constant(g1, g1.r, 0)
      k1 == yices_constant(k0, g1.r, 1)
      g2 == yices_new_uninterpreted_type(k1)
      u0 == yices_constant(g2, g2.r, 0)
      u1 == yices_constant(u0, g2.r, 1)
      u2 == yices_constant(u1, g2.r, 2)
      a == yices_new_uninterpreted_term(u2, g2.r)
      x == yices_new_uninterpreted_term(a, int_id)
      one == yices_arith_constant(x, 1)
      x1 == yices_add(one, x.r, one.r)
  IN yices_add(x1, x1.r, one.r)

InitDistinct ==
  /\ types = PreludeDistinct.types
  /\ terms = PreludeDistinct.terms
  /\ error = PreludeDistinct.error
  /\ buffers = <<>>
  /\ sk = NoSk
  /\ ef = init_ef_table
  /\ last = NoCall
  /\ fails = <<>>
  /\ ncalls = 0

\* the arguments: true_term and the terms of the initial table
DistinctPool == {pos_term(i) : i \in 1..Len(PreludeDistinct.terms)}

DistinctOfPool ==
  /\ Ready
  /\ \E a \in SeqsOf(DistinctPool, 1, MaxArgs) : Do(MkCall("yices_distinct", a, 0, 0))

NextDistinct ==
  \/ DistinctOfPool
  \/ Return

SpecDistinct == InitDistinct /\ [][NextDistinct]_vars

(***************************************************************************)
(* Specification SpecEf: the value table is filled from a model, then      *)
(* reset                                                                   *)
(***************************************************************************)
MaxEntries == 2

InitEf ==
  /\ types = G0.types
  /\ terms = G0.terms
  /\ error = G0.error
  /\ buffers = <<>>
  /\ sk = NoSk
  /\ ef = init_ef_table
  /\ last = NoCall
  /\ fails = <<>>
  /\ ncalls = 0

\* the top-level terms and their values: x has value 1, and y, when it is
\* there, any value
EfVars ==
  {<<[var |-> [f |-> "x", args |-> <<>>], value |-> 1]>>} \cup
  {<<[var |-> [f |-> "x", args |-> <<>>], value |-> 1],
     [var |-> [f |-> "y", args |-> <<>>], value |-> v]>> : v \in EfValues}

\* the instances of a function f of one argument, and of a function of two
\* arguments on the pairs (a, a): at most MaxEntries, by increasing argument
EfEntries(f, n) ==
  LET E == {[var |-> [f |-> f, args |-> [i \in 1..n |-> a]], value |-> v]
              : a \in EfValues, v \in EfValues}
  IN UNION {{s \in [1..k -> E] : \A i \in 1..(k - 1) : s[i].var.args[1] < s[i + 1].var.args[1]}
              : k \in 0..MaxEntries}

\* the orders in which the records of the hash map may come
Orders(S) == {q \in [1..Cardinality(S) -> S] : \A i, j \in DOMAIN q : i # j => q[i] # q[j]}

EfFill ==
  /\ ef.status = "empty"
  /\ \E vs \in EfVars, gs \in EfEntries("g", 1), hs \in EfEntries("h", 2), ndebug \in BOOLEAN :
       \E queue \in Orders(unresolved(store_values(store_values(ef, vs, 1), gs \o hs, 1))) :
          ef' = fill_ef_table(ef, vs, gs \o hs, queue, ndebug)
  /\ last' = [NoCall EXCEPT !.op = "fill_ef_table"]
  /\ UNCHANGED <<types, terms, error, buffers, sk, fails, ncalls>>

EfReset ==
  /\ ef.status # "empty"
  /\ ef' = reset_ef_table(ef)
  /\ last' = [NoCall EXCEPT !.op = "reset_ef_table"]
  /\ UNCHANGED <<types, terms, error, buffers, sk, fails, ncalls>>

\* a representative is asked for, once the table is filled
EfGetValue ==
  /\ last.op = "fill_ef_table"
  /\ ef.status = "done"
  /\ \E value \in {v \in EfValues : ef.map[v] # <<>>} :
       \E res \in {ef_get_value(ef, value)} :
          /\ ef' = res.vtable
          /\ last' = [op |-> "ef_get_value", a |-> <<>>, x |-> value,
                      y |-> IF res.circular \/ res.failed THEN 1 ELSE 0, r |-> res.r]
  /\ UNCHANGED <<types, terms, error, buffers, sk, fails, ncalls>>

NextEf ==
  \/ EfFill
  \/ EfGetValue
  \/ EfReset

SpecEf == InitEf /\ [][NextEf]_vars

(***************************************************************************)
(* Buffer lists (term_api.c).  The four list headers are static objects at *)
(* the addresses 1..4; the list elements are allocated at the addresses    *)
(* 5, 6, ...  The memory is [next, prev, kind, freed, deleted, hdr,        *)
(* aborted, diverged]: next, prev, kind, freed and deleted are indexed by  *)
(* the address; kind is the header of the list the element was allocated   *)
(* for; freed and deleted count the calls of safe_free and of              *)
(* delete_*_buffer on the element; hdr tells that a list header has been   *)
(* deleted and freed as if it were an element; aborted that the process    *)
(* has been aborted; diverged that a loop has not stopped.                 *)
(***************************************************************************)
MaxElems == 3
MaxLoopSteps == 6

arith_buffer_list == 1
bvarith_buffer_list == 2
bvarith64_buffer_list == 3
bvlogic_buffer_list == 4

Headers == {arith_buffer_list, bvarith_buffer_list, bvarith64_buffer_list, bvlogic_buffer_list}

clear_list(m, l) == [m EXCEPT !.next[l] = l, !.prev[l] = l]

list_insert_next(m, l, e) ==
  LET n == m.next[l]
  IN [m EXCEPT !.next = [@ EXCEPT ![e] = n, ![l] = e],
               !.prev = [[@ EXCEPT ![n] = e] EXCEPT ![e] = l]]

list_remove(m, e) ==
  [m EXCEPT !.next[m.prev[e]] = m.next[e], !.prev[m.next[e]] = m.prev[e]]

\* the memory after yices_init: the four lists are empty
init_buffer_lists ==
  [next |-> <<1, 2, 3, 4>>, prev |-> <<1, 2, 3, 4>>, kind |-> <<0, 0, 0, 0>>,
   freed |-> <<0, 0, 0, 0>>, deleted |-> <<0, 0, 0, 0>>,
   hdr |-> FALSE, aborted |-> FALSE, diverged |-> FALSE]

\* safe_malloc of a new element, inserted in the list l
alloc_buffer(m, l) ==
  LET e == Len(m.next) + 1
      m1 == [m EXCEPT !.next = Append(@, e), !.prev = Append(@, e), !.kind = Append(@, l),
                      !.freed = Append(@, 0), !.deleted = Append(@, 0)]
  IN list_insert_next(m1, l, e)

\* list_remove and safe_free of the element e
free_buffer(m, e) == [list_remove(m, e) EXCEPT !.freed[e] = @ + 1]

\* yices_free_*_buffer: delete_*_buffer, then free_*_buffer
yices_free_buffer(m, e) == free_buffer([m EXCEPT !.deleted[e] = @ + 1], e)

\* the loop of free_*_buffer_list from elem on, stopped at the header
\* sentinel.  Deleting and freeing a list header, or an element that is
\* already freed, is undefined: with ub = "abort" the allocator aborts the
\* process, with ub = "go" the execution goes on with what the memory holds.
RECURSIVE free_buffer_loop(_, _, _, _, _)
free_buffer_loop(m, elem, sentinel, ub, fuel) ==
  IF elem = sentinel THEN m
  ELSE IF fuel = 0 THEN [m EXCEPT !.diverged = TRUE]
  ELSE IF elem \in Headers
  THEN IF ub = "abort" THEN [m EXCEPT !.hdr = TRUE, !.aborted = TRUE]
       ELSE free_buffer_loop([m EXCEPT !.hdr = TRUE], m.next[elem], sentinel, ub, fuel - 1)
  ELSE IF m.freed[elem] > 0 /\ ub = "abort"
  THEN [m EXCEPT !.deleted[elem] = @ + 1, !.freed[elem] = @ + 1, !.aborted = TRUE]
  ELSE free_buffer_loop([m EXCEPT !.deleted[elem] = @ + 1, !.freed[elem] = @ + 1],
                        m.next[elem], sentinel, ub, fuel - 1)

\* free_*_buffer_list for the list l, with the header the loop compares to
free_buffer_list(m, l, sentinel, ub) ==
  IF m.aborted \/ m.diverged THEN m
  ELSE LET r == free_buffer_loop(m, m.next[l], sentinel, ub, MaxLoopSteps)
       IN IF r.aborted \/ r.diverged THEN r ELSE clear_list(r, l)

free_arith_buffer_list(m, ub) == free_buffer_list(m, arith_buffer_list, arith_buffer_list, ub)

free_bvarith_buffer_list(m, ub) ==
  free_buffer_list(m, bvarith_buffer_list, bvarith_buffer_list, ub)

free_bvarith64_buffer_list(m, ub) ==
  free_buffer_list(m, bvarith64_buffer_list, bvarith_buffer_list, ub)

free_bvlogic_buffer_list(m, ub) ==
  free_buffer_list(m, bvlogic_buffer_list, bvlogic_buffer_list, ub)

yices_cleanup(m, ub) ==
  free_arith_buffer_list(
    free_bvarith64_buffer_list(
      free_bvarith_buffer_list(
        free_bvlogic_buffer_list(m, ub), ub), ub), ub)

(***************************************************************************)
(* Specification SpecMem: buffers are allocated and freed, then            *)
(* yices_cleanup is called; the variable buffers holds the memory          *)
(***************************************************************************)
InitMem ==
  /\ types = G0.types
  /\ terms = G0.terms
  /\ error = G0.error
  /\ buffers = init_buffer_lists
  /\ sk = NoSk
  /\ ef = init_ef_table
  /\ last = NoCall
  /\ fails = <<>>
  /\ ncalls = 0

\* the elements allocated so far, and those that are still in a list
Elems == 5..Len(buffers.next)

LiveElems == {e \in Elems : buffers.freed[e] = 0}

Running == last.op # "yices_cleanup"

MemNewBuffer ==
  /\ Running
  /\ Len(buffers.next) < 4 + MaxElems
  /\ \E l \in Headers :
       /\ buffers' = alloc_buffer(buffers, l)
       /\ last' = [op |-> "yices_new_buffer", a |-> <<>>, x |-> l, y |-> 0,
                   r |-> Len(buffers.next) + 1]
  /\ UNCHANGED <<types, terms, error, sk, fails, ncalls, ef>>

MemFreeBuffer ==
  /\ Running
  /\ \E e \in LiveElems :
       /\ buffers' = yices_free_buffer(buffers, e)
       /\ last' = [op |-> "yices_free_buffer", a |-> <<>>, x |-> e, y |-> 0, r |-> 0]
  /\ UNCHANGED <<types, terms, error, sk, fails, ncalls, ef>>

MemCleanup ==
  /\ Running
  /\ \E ub \in {"abort", "go"} :
       /\ buffers' = yices_cleanup(buffers, ub)
       /\ last' = [op |-> "yices_cleanup", a |-> <<>>, x |-> 0, y |-> 0, r |-> 0]
  /\ UNCHANGED <<types, terms, error, sk, fails, ncalls, ef>>

NextMem ==
  \/ MemNewBuffer
  \/ MemFreeBuffer
  \/ MemCleanup

SpecMem == InitMem /\ [][NextMem]_vars

(***************************************************************************)
(* Specification SpecSk: formulas are built, then skolemized               *)
(***************************************************************************)
MaxRuns == 2

\* types U, V and (U, V, U) -> bool, U -> bool; variables x : U, y : V,
\* z : U; the atoms R(x, y, z) and P(z)
PreludeSk ==
  LET g1 == yices_new_uninterpreted_type(G0)
      g2 == yices_new_uninterpreted_type(g1)
      g3 == yices_function_type(g2, 3, <<g1.r, g2.r, g1.r>>, bool_id)
      g4 == yices_function_type(g3, 1, <<g1.r>>, bool_id)
      x == yices_variable(g4, g1.r, 0)
      y == yices_variable(x, g2.r, 0)
      z == yices_variable(y, g1.r, 1)
      R == yices_new_uninterpreted_term(z, g3.r)
      P == yices_new_uninterpreted_term(R, g4.r)
      a1 == yices_application(P, R.r, 3, <<x.r, y.r, z.r>>)
  IN [g |-> yices_application(a1, P.r, 1, <<z.r>>), x |-> x.r, y |-> y.r, z |-> z.r]

InitSk ==
  /\ types = PreludeSk.g.types
  /\ terms = PreludeSk.g.terms
  /\ error = PreludeSk.g.error
  /\ buffers = <<>>
  /\ sk = NoSk
  /\ ef = init_ef_table
  /\ last = NoCall
  /\ fails = <<>>
  /\ ncalls = 0

\* the boolean terms of the table other than the constants
SkPool(tbl) == BoolPool(tbl) \ {true_term, false_term}

\* the arrays of variables a quantifier is built over
QVars == {<<PreludeSk.x>>, <<PreludeSk.y>>, <<PreludeSk.z>>, <<PreludeSk.x, PreludeSk.y>>}

\* the variables bound by a quantifier inside t
RECURSIVE BoundVars(_, _)
BoundVars(tbl, t) ==
  LET d == tbl[index_of(t)]
      below == UNION {BoundVars(tbl, d.args[k]) : k \in 1..Len(d.args)}
  IN IF d.kind \in {"CONSTANT_TERM", "UNINTERPRETED_TERM", "VARIABLE"} THEN {}
     ELSE IF d.kind = "FORALL_TERM"
     THEN Range(SubSeq(d.args, 1, Len(d.args) - 1)) \cup BoundVars(tbl, d.args[Len(d.args)])
     ELSE below

\* formulas are built until a skolemizer is initialized; no variable is
\* bound again inside its own scope
Building == Ready /\ ~sk.inited

SkForall ==
  /\ Building
  /\ \E xs \in QVars, body \in SkPool(terms) :
       /\ Range(xs) \cap BoundVars(terms, body) = {}
       /\ Do(MkCall("yices_forall", xs, body, 0))

SkExists ==
  /\ Building
  /\ \E xs \in QVars, body \in SkPool(terms) :
       /\ Range(xs) \cap BoundVars(terms, body) = {}
       /\ Do(MkCall("yices_exists", xs, body, 0))

SkOr ==
  /\ Building
  /\ \E a \in SeqsOf(SkPool(terms), 2, 2) : Do(MkCall("yices_or", a, 0, 0))

SkIff ==
  /\ Building
  /\ \E x \in SkPool(terms), y \in SkPool(terms) : Do(MkCall("yices_iff", <<>>, x, y))

SkIte ==
  /\ Building
  /\ \E a \in SeqsOf(SkPool(terms), 3, 3) : Do(MkCall("yices_ite", a, 0, 0))

SkReturn ==
  /\ ~sk.inited
  /\ Return

\* init_ef_skolemize, for the formula that has just been built
InitEfSkolemize ==
  /\ ~sk.inited
  /\ last.op # "none"
  /\ ~Failed(last.r)
  /\ \E f_ite \in BOOLEAN, f_iff \in BOOLEAN :
       sk' = [NoSk EXCEPT !.inited = TRUE, !.flatten_ite = f_ite, !.flatten_iff = f_iff]
  /\ UNCHANGED <<types, terms, error, buffers, last, fails, ncalls, ef>>

\* the formula that is skolemized: the one built last
Formula == IF last.op = "ef_skolemize" THEN last.x ELSE last.r

SkolemizerState(nd) ==
  [types |-> types, terms |-> terms, error |-> error,
   flatten_ite |-> sk.flatten_ite, flatten_iff |-> sk.flatten_iff, uvars |-> sk.uvars,
   existentials |-> sk.existentials, num_skolem |-> sk.num_skolem,
   ndebug |-> nd, halted |-> FALSE, clash |-> sk.clash, calls |-> {}, bodies |-> <<>>,
   names |-> sk.names]

\* the terms ef_skolemize is called on: the formula built last, or the term
\* the previous call of ef_skolemize returned
SkolemizeInputs ==
  {Formula} \cup (IF last.op = "ef_skolemize" /\ ~Failed(last.r) THEN {last.r} ELSE {})

\* ef_skolemize(sk, t), in a debug or in a release build; last.y tells that
\* t is the result of the previous call and last.a keeps the map as it was
\* before the call
Skolemize ==
  /\ sk.inited
  /\ ~sk.halted
  /\ sk.runs < MaxRuns
  /\ \E nd \in BOOLEAN, t \in SkolemizeInputs :
       \E v \in {ef_skolemize(SkolemizerState(nd), t)} :
          /\ types' = v.S.types
          /\ terms' = v.S.terms
          /\ error' = v.S.error
          /\ sk' = [sk EXCEPT !.uvars = v.S.uvars, !.existentials = v.S.existentials,
                               !.num_skolem = v.S.num_skolem, !.halted = v.S.halted,
                               !.clash = v.S.clash, !.calls = v.S.calls,
                               !.bodies = v.S.bodies, !.runs = @ + 1,
                               !.names = v.S.names]
          /\ last' = [op |-> "ef_skolemize", a |-> sk.existentials, x |-> t,
                      y |-> IF last.op = "ef_skolemize" /\ t = last.r THEN 1 ELSE 0,
                      r |-> v.r]
  /\ UNCHANGED <<buffers, fails, ncalls, ef>>

NextSk ==
  \/ SkForall
  \/ SkExists
  \/ SkOr
  \/ SkIff
  \/ SkIte
  \/ SkReturn
  \/ InitEfSkolemize
  \/ Skolemize

SpecSk == InitSk /\ [][NextSk]_vars

(***************************************************************************)
(* Properties of the skolemizer, checked under SpecSk                      *)
(***************************************************************************)
\* ef_skolemize has returned a term
Skolemized == last.op = "ef_skolemize" /\ ~sk.halted

\* the references to FORALL terms in t, t included, each with the polarity
\* bit it has where it occurs
RECURSIVE ForallRefs(_, _)
ForallRefs(tbl, t) ==
  LET d == tbl[index_of(t)]
  IN (IF d.kind = "FORALL_TERM" THEN {t} ELSE {})
       \cup (IF d.kind \in {"CONSTANT_TERM", "UNINTERPRETED_TERM", "VARIABLE"} THEN {}
             ELSE UNION {ForallRefs(tbl, d.args[k]) : k \in 1..Len(d.args)})

\* C6: the term returned by ef_skolemize contains no negated FORALL term,
\* whatever the flags flatten_ite and flatten_iff.
C6_NoExistential ==
  Skolemized => \A q \in ForallRefs(terms, last.r) : ~is_neg_term(q)

\* a formula with an existential quantifier under a universal one has been
\* skolemized with a Skolem function
C6_Witness ==
  /\ Skolemized
  /\ \E q \in ForallRefs(terms, last.x) : is_neg_term(q)
  /\ sk.num_skolem > 0
  /\ \A q \in ForallRefs(terms, last.r) : ~is_neg_term(q)

\* the variable arrays of the universal quantifiers of the negation normal
\* form of t (pos) or of its negation (~pos): a FORALL term is universal
\* where it occurs positively; both sides of an equivalence and the
\* condition of an if-then-else occur with both polarities
RECURSIVE Universals(_, _, _)
Universals(tbl, t, pos) ==
  LET d == tbl[index_of(t)]
      p == (pos # is_neg_term(t))
      n == Len(d.args)
  IN CASE d.kind = "FORALL_TERM" ->
            (IF p THEN {SubSeq(d.args, 1, n - 1)} ELSE {}) \cup Universals(tbl, d.args[n], p)
       [] d.kind = "OR_TERM" -> UNION {Universals(tbl, d.args[k], p) : k \in 1..n}
       [] d.kind = "EQ_TERM" /\ is_boolean_term(tbl, d.args[1]) ->
            UNION {Universals(tbl, d.args[k], b) : k \in 1..2, b \in BOOLEAN}
       [] d.kind = "ITE_TERM" /\ is_boolean_term(tbl, d.args[2]) ->
            UNION {Universals(tbl, d.args[1], b) : b \in BOOLEAN}
              \cup Universals(tbl, d.args[2], p) \cup Universals(tbl, d.args[3], p)
       [] OTHER -> {}

\* C7 (as stated): every universal quantifier of the negation normal form
\* of the input appears in the result as a FORALL term over the same
\* variables, and the result has no other FORALL term.
C7_UniversalsPreserved ==
  Skolemized =>
     Universals(terms, last.x, TRUE)
        = {SubSeq(term_args(terms, q), 1, term_num_children(terms, q) - 1)
             : q \in ForallRefs(terms, last.r)}

\* C7 (amended): the result contains no FORALL term: every universal
\* quantifier met is replaced by its skolemized body and its variables are
\* left free.
C7_UniversalsStripped ==
  Skolemized => ForallRefs(terms, last.r) = {}

\* a universally quantified formula with no other quantifier has been
\* skolemized to its body
C7_Witness ==
  /\ Skolemized
  /\ ~is_neg_term(last.x)
  /\ index_kind(terms, last.x) = "FORALL_TERM"
  /\ last.r = term_child(terms, last.x, term_num_children(terms, last.x) - 1)
  /\ ForallRefs(terms, last.r) = {}

\* the term s occurs in t
RECURSIVE Occurs(_, _, _)
Occurs(tbl, s, t) ==
  \/ unsigned_term(s) = unsigned_term(t)
  \/ \E k \in 1..Len(tbl[index_of(t)].args) :
        /\ tbl[index_of(t)].kind \notin {"CONSTANT_TERM", "UNINTERPRETED_TERM", "VARIABLE"}
        /\ Occurs(tbl, s, tbl[index_of(t)].args[k])

\* the analyzer's map has a record x -> v
Maps(x, v) == \E k \in 1..Len(sk.existentials) : sk.existentials[k] = [key |-> x, val |-> v]

\* f is an uninterpreted function allocated after the first n terms, of
\* type (type(u1), ..., type(um)) -> type(x)
FreshSkolemFunction(f, n, u, x) ==
  /\ ~is_neg_term(f)
  /\ index_of(f) > n
  /\ index_kind(terms, f) = "UNINTERPRETED_TERM"
  /\ type_kind(types, term_type(terms, f)) = "FUNCTION_TYPE"
  /\ types[term_type(terms, f) + 1].elem = [j \in 1..Len(u) |-> term_type(terms, u[j])]
  /\ types[term_type(terms, f) + 1].range = term_type(terms, x)

\* C8: when ef_skolemize meets (not (forall x1..xk body)) with universal
\* stack u1..um: if m = 0 every xi is mapped to itself and the body is left
\* as it is; if m > 0 every xi is mapped to a fresh uninterpreted function
\* fi of type (type(u1),...,type(um)) -> type(xi), and xi is replaced by the
\* application fi(u1,...,um) wherever it occurs in the body.
C8_SkolemMapping ==
  \A e \in Range(sk.bodies) :
     \A i \in 1..Len(e.vars) :
        IF e.uvars = <<>>
        THEN /\ Maps(e.vars[i], e.vars[i])
             /\ e.out = e.body
             /\ e.funcs = <<>>
        ELSE /\ FreshSkolemFunction(e.funcs[i], e.nterms, e.uvars, e.vars[i])
             /\ \A j \in 1..Len(e.vars) : j # i => e.funcs[j] # e.funcs[i]
             /\ Maps(e.vars[i], e.funcs[i])
             /\ ~is_neg_term(e.skolems[i])
             /\ index_kind(terms, e.skolems[i]) = "APP_TERM"
             /\ term_args(terms, e.skolems[i]) = <<e.funcs[i]>> \o e.uvars
             /\ ~Occurs(terms, e.vars[i], e.out)
             /\ Occurs(terms, e.vars[i], e.body) => Occurs(terms, e.skolems[i], e.out)

\* an existential variable that occurs in its scope has been skolemized
\* under two universal variables of different types
C8_Witness ==
  /\ Skolemized
  /\ \E e \in Range(sk.bodies) :
        /\ Len(e.uvars) = 2
        /\ term_type(terms, e.uvars[1]) # term_type(terms, e.uvars[2])
        /\ Occurs(terms, e.vars[1], e.body)
        /\ Occurs(terms, e.skolems[1], last.r)
        /\ Maps(e.vars[1], e.funcs[1])

\* C9: each existentially bound variable is inserted into the analyzer's
\* existentials map at most once: the assertion r == NULL of ef_skolem_body
\* holds at every insertion.
C9_InsertedOnce == ~sk.clash

\* C10: at the return of every call of ef_skolemize_term the universal
\* stack is what it was at the entry of the call; the body of a positive
\* forall is entered with the forall's variables pushed in declaration
\* order; the stack is empty after ef_skolemize.
C10_PrefixStack ==
  /\ \A c \in sk.calls :
        /\ c.uout = c.uin
        /\ (index_kind(terms, c.t) = "FORALL_TERM" /\ ~is_neg_term(c.t))
             => \E b \in sk.calls :
                   /\ b.t = term_child(terms, c.t, term_num_children(terms, c.t) - 1)
                   /\ b.uin = c.uin \o SubSeq(term_args(terms, c.t), 1,
                                              term_num_children(terms, c.t) - 1)
  /\ Skolemized => sk.uvars = <<>>

\* a Skolem term has been introduced under two universal variables, and the
\* stack is empty at the end
C10_Witness ==
  /\ Skolemized
  /\ sk.uvars = <<>>
  /\ \E e \in Range(sk.bodies) : Len(e.uvars) = 2
  /\ \E c \in sk.calls : Len(c.uin) = 2 /\ c.uout = c.uin

\* C11: ef_skolemize applied to the term a previous ef_skolemize returned
\* gives that same term back and adds no record to the existentials map,
\* whatever the flags flatten_ite and flatten_iff.
C11_Idempotent ==
  (Skolemized /\ last.y = 1) => (last.r = last.x /\ sk.existentials = last.a)

(***************************************************************************)
(* Properties of arithmetic, checked under SpecArith                       *)
(***************************************************************************)
\* C12: not(not(t)) is the handle t for every boolean term t, and
\* neg(neg(t)) is the handle t for every arithmetic term t.
C12_Involution ==
  /\ (last.op = "yices_not" /\ ~Failed(last.r)) => yices_not(G, last.r).r = last.x
  /\ (last.op = "yices_neg" /\ ~Failed(last.r)) => yices_neg(G, last.r).r = last.x

\* the negation of a polynomial that is itself the negation of a sum has
\* been built, and negating it again gives the polynomial back
C12_Witness ==
  /\ last.op = "yices_neg"
  /\ ~Failed(last.r)
  /\ term_kind(terms, last.x) = "ARITH_TERM"
  /\ Cardinality(arith_term_desc(terms, last.x)) = 2
  /\ last.r # last.x
  /\ yices_neg(G, last.r).r = last.x

(***************************************************************************)
(* Properties of the term table                                            *)
(***************************************************************************)
\* the kinds whose arguments are kept in order
OrderedKinds == {"OR_TERM", "DISTINCT_TERM", "EQ_TERM", "BV_EQ_ATOM", "ARITH_BINEQ_ATOM"}

StrictlyIncreasing(a) == \A i \in 1..(Len(a) - 1) : a[i] < a[i + 1]

C14_SkolemCounter ==
  /\ Len(sk.names) = sk.num_skolem
  /\ \A i \in 1..Len(sk.names) : sk.names[i].n = i
  /\ \A i \in 1..Len(sk.names), j \in 1..Len(sk.names) :
        i # j => sk.names[i].func # sk.names[j].func

\* one variable has been skolemized by two calls of ef_skolemize and its two
\* Skolem functions have different numbers
C14_Witness ==
  /\ Skolemized
  /\ sk.runs = 2
  /\ \E i \in 1..Len(sk.names), j \in 1..Len(sk.names) :
        /\ i < j
        /\ sk.names[i].x = sk.names[j].x
        /\ sk.names[i].n < sk.names[j].n

(***************************************************************************)
(* Properties of the buffer lists, checked under SpecMem                   *)
(***************************************************************************)
\* C15: yices_cleanup returns with the four lists empty and every buffer
\* allocated since yices_init deleted and freed exactly once, and it has
\* not deleted or freed a list header.
C15_ListsDrained ==
  last.op = "yices_cleanup" =>
     /\ ~buffers.aborted
     /\ ~buffers.diverged
     /\ ~buffers.hdr
     /\ \A l \in Headers : buffers.next[l] = l /\ buffers.prev[l] = l
     /\ \A e \in Elems : buffers.freed[e] = 1 /\ buffers.deleted[e] = 1


(***************************************************************************)
(* Properties of the bit-vector logic buffers                              *)
(***************************************************************************)
\* C16: bvlogic_buffer_get_term on a non-empty buffer of n bits returns the
\* handle of a bit-vector term of n bits, and the buffer is cleared
C16_ReturnsTerm ==
  last.op = "bvlogic_buffer_get_term" =>
    /\ ~bad_term(terms, last.r)
    /\ is_bitvector_term(G, last.r)
    /\ term_bitsize(G, last.r) = last.y
    /\ buffers[last.x].nbits = 0


(***************************************************************************)
(* Properties of the polynomial degrees                                    *)
(***************************************************************************)
\* C17: every arithmetic polynomial term of the term table has degree at
\* most YICES_MAX_DEGREE, and a product or a square that has just returned a
\* term returned one within the bound
C17_DegreeBound ==
  /\ \A i \in 1..Len(terms) :
        terms[i].kind = "ARITH_TERM" => term_degree(terms, pos_term(i)) <= YICES_MAX_DEGREE
  /\ (last.op \in {"yices_mul", "yices_square", "yices_arith_term"} /\ ~Failed(last.r))
        => term_degree(terms, last.r) <= YICES_MAX_DEGREE


(***************************************************************************)
(* Properties of the simplifications                                       *)
(***************************************************************************)
\* C18: a constructor applied to terms that mention no variable and no
\* uninterpreted symbol returns true_term or false_term when the result is
\* a formula, and a constant otherwise: no ground term but the constants is
\* ever in the table
C18_ConstantFolding ==
  /\ \A t \in GroundPool(terms) : index_kind(terms, t) = "CONSTANT_TERM"
  /\ (last.op # "none" /\ ~Failed(last.r)) =>
        /\ last.r \in GroundPool(terms)
        /\ is_boolean_term(terms, last.r) => last.r \in {true_term, false_term}

\* an equality between two different constants of the scalar type has been
\* reduced to false_term
C18_Witness ==
  /\ last.op = "yices_eq"
  /\ last.x # last.y
  /\ ~is_boolean_term(terms, last.x)
  /\ last.r = false_term


(***************************************************************************)
(* Properties of yices_distinct                                            *)
(***************************************************************************)
\* the values the uninterpreted terms may take
Values == -2..3

UninterpretedTerms(tbl) ==
  {pos_term(i) : i \in {j \in 1..Len(tbl) : tbl[j].kind = "UNINTERPRETED_TERM"}}

RECURSIVE ProductOf(_, _)
ProductOf(pp, I) == IF pp = <<>> THEN 1 ELSE I[pp[1]] * ProductOf(Tail(pp), I)

RECURSIVE SumOf(_, _)
SumOf(p, I) ==
  IF p = {} THEN 0
  ELSE LET m == CHOOSE m \in p : TRUE
       IN m.coeff * ProductOf(m.pp, I) + SumOf(p \ {m}, I)

\* the value of a constant, an uninterpreted term or a polynomial when the
\* uninterpreted terms have the values I; different constants of a type are
\* different values
ValueOf(tbl, t, I) ==
  CASE index_kind(tbl, t) = "CONSTANT_TERM" -> term_args(tbl, t)[1]
    [] index_kind(tbl, t) = "UNINTERPRETED_TERM" -> I[t]
    [] index_kind(tbl, t) = "ARITH_TERM" -> SumOf(arith_term_desc(tbl, t), I)

CanBeEqual(tbl, t1, t2) ==
  \E I \in [UninterpretedTerms(tbl) -> Values] : ValueOf(tbl, t1, I) = ValueOf(tbl, t2, I)

\* C19: yices_distinct on n valid arguments of compatible types: true_term
\* for n = 1, yices_neq for n = 2; for n >= 3, false_term when two arguments
\* are the same handle or the type is boolean or a scalar type of less than
\* n elements, true_term when all pairs are trivially disequal, and
\* otherwise the distinct term of the sorted arguments.  It is true_term
\* only when no two arguments can be equal.
C19_Distinct ==
  (last.op = "yices_distinct" /\ ~Failed(last.r)) =>
    LET a == last.a
        n == Len(a)
        tau == term_type(terms, a[1])
    IN /\ n = 1 => last.r = true_term
       /\ n = 2 => last.r = yices_neq(G, a[1], a[2]).r
       /\ n >= 3 =>
            IF \/ \E i, j \in 1..n : i < j /\ a[i] = a[j]
               \/ tau = bool_id
               \/ (type_kind(types, tau) = "SCALAR_TYPE"
                   /\ scalar_type_cardinal(types, tau) < n)
            THEN last.r = false_term
            ELSE IF \A i, j \in 1..n : i < j => disequal_terms(G, a[i], a[j])
            THEN last.r = true_term
            ELSE /\ term_kind(terms, last.r) = "DISTINCT_TERM"
                 /\ term_args(terms, last.r) = SortSet(Range(a))
       /\ last.r = true_term =>
            \A i, j \in 1..n : i < j => ~CanBeEqual(terms, a[i], a[j])

\* three constants of the uninterpreted type given out of order are found
\* distinct, and two constants with an uninterpreted term give a distinct term
C19_Witness ==
  /\ last.op = "yices_distinct"
  /\ Len(last.a) = 3
  /\ \/ /\ last.r = true_term
        /\ last.a[1] > last.a[2]
        /\ ~is_arithmetic_term(terms, last.a[1])
     \/ /\ ~Failed(last.r)
        /\ term_kind(terms, last.r) = "DISTINCT_TERM"
        /\ last.a[1] > last.a[2]


(***************************************************************************)
(* Properties of the value table, checked under SpecEf                     *)
(***************************************************************************)
\* the priority of witness w in the table: 0 for an atomic term, 1 + the sum
\* of the priorities of the arguments for an application, -1 when an
\* argument has no priority
WitnessPriority(vtable, w) ==
  IF ef_term_is_atomic(w) THEN 0
  ELSE IF calculate_priority(vtable, w) = 0 THEN -1
  ELSE calculate_priority(vtable, w)

\* C20: when fill_ef_table has completed, the representative of each value
\* is one of the witnesses of the value, and no witness of the value has a
\* lower priority
C20_MinimalRep ==
  ef.status = "done" =>
    \A v \in EfValues :
      ef.map[v] # <<>> =>
        /\ ef.var_rep[v] \in Range(ef.map[v])
        /\ \A w \in Range(ef.map[v]) :
              WitnessPriority(ef, w) >= 0 =>
                 WitnessPriority(ef, ef.var_rep[v]) <= WitnessPriority(ef, w)


\* no witness of a value without representative has a priority: no later
\* pass over the queue can give a representative
NoProgressPossible(vtable) ==
  /\ unresolved(vtable) # {}
  /\ \A v \in unresolved(vtable) :
        \A w \in Range(vtable.map[v]) : calculate_priority(vtable, w) = 0

\* C21: the loop of fill_ef_table ends on every input: with the failure
\* "Unable to clear dependency" exactly when values are left that a full
\* round cannot resolve, and otherwise with every value of the map having a
\* representative
C21_LoopEnds ==
  last.op = "fill_ef_table" =>
    /\ ef.status \in {"done", "aborted"}
    /\ ef.status = "aborted" <=> NoProgressPossible(ef)
    /\ ef.status = "done" => unresolved(ef) = {}


\* the representative of value v with the values of its arguments replaced
\* by their representatives, at every depth
RECURSIVE FullRep(_, _)
FullRep(vtable, v) ==
  LET x == vtable.var_rep[v]
  IN IF ef_term_is_atomic(x) THEN x
     ELSE [f |-> x.f, args |-> [i \in 1..Len(x.args) |-> FullRep(vtable, x.args[i])]]

\* C22: on a filled table, where no representative depends on itself,
\* ef_get_value raises no failure and returns the representative with the
\* values of the arguments replaced by their representatives
C22_GetValue ==
  last.op = "ef_get_value" => (last.y = 0 /\ last.r = FullRep(ef, last.x))


(***************************************************************************)
(* Conversion of bit-vector polynomials to bit arrays (term_api.c)         *)
(***************************************************************************)
BvArraySize == 2
MaxMonomials == 2

bool2term(b) == IF b THEN true_term ELSE false_term
tst_bit64(c, i) == (c \div Pow2(i)) % 2 = 1
\* index of the rightmost 1 of c, for c # 0
RECURSIVE ctz64(_)
ctz64(c) == IF c % 2 = 1 THEN 0 ELSE 1 + ctz64(c \div 2)

\* index of the bit set when c is a power of two, -1 otherwise
bvconst_is_power_of_two(c, n) ==
  IF \E k \in 0..(n - 1) : c = Pow2(k) THEN CHOOSE k \in 0..(n - 1) : c = Pow2(k) ELSE -1

\* vectors hold bit i of the code at position i + 1
bvarray_set_zero_bv(n) == [i \in 1..n |-> false_term]
bvarray_copy_constant64(n, c) == [i \in 1..n |-> bool2term(tst_bit64(c, i - 1))]
bvarray_copy_constant(n, c) == [i \in 1..n |-> bool2term(tst_bit64(c, i - 1))]

\* the loop that updates v, from bit i on
RECURSIVE bvarray_addmul_update(_, _, _, _, _)
bvarray_addmul_update(v, n, k, a, i) ==
  IF i >= n THEN v
  ELSE bvarray_addmul_update(IF a[i - k + 1] # false_term
                             THEN [v EXCEPT ![i + 1] = v[i - k + 1]] ELSE v,
                             n, k, a, i + 1)

\* [ok, v]: whether v + c * a is v | (a << k), and v updated
bvarray_check_addmul64(v, n, c, a) ==
  IF c = 0 THEN [ok |-> TRUE, v |-> v]
  ELSE LET k == ctz64(c)
       IN IF c # Pow2(k) THEN [ok |-> FALSE, v |-> v]
          ELSE IF \E i \in k..(n - 1) : v[i + 1] # false_term /\ a[i - k + 1] # false_term
               THEN [ok |-> FALSE, v |-> v]
               ELSE [ok |-> TRUE, v |-> bvarray_addmul_update(v, n, k, a, k)]

bvarray_check_addmul(v, n, c, a) ==
  IF c = 0 THEN [ok |-> TRUE, v |-> v]
  ELSE LET k == bvconst_is_power_of_two(c, n)
       IN IF k < 0 THEN [ok |-> FALSE, v |-> v]
          ELSE IF \E i \in k..(n - 1) : v[i + 1] # false_term /\ a[i - k + 1] # false_term
               THEN [ok |-> FALSE, v |-> v]
               ELSE [ok |-> TRUE, v |-> bvarray_addmul_update(v, n, k, a, k)]

\* a monomial is [coeff, bv]: bv holds the bits of the bit-array term that
\* is the power product, <<>> when the product is not such a term
pprod_get_bvarray(m) == m.bv

\* the loop over the monomials, from position j on: [ok, v]
RECURSIVE convert_monomials(_, _, _, _, _)
convert_monomials(v, n, list, j, wide) ==
  IF j > Len(list) THEN [ok |-> TRUE, v |-> v]
  ELSE LET bv == pprod_get_bvarray(list[j])
       IN IF bv = <<>> THEN [ok |-> FALSE, v |-> v]
          ELSE LET c == IF wide THEN bvarray_check_addmul(v, n, list[j].coeff, bv)
                        ELSE bvarray_check_addmul64(v, n, list[j].coeff, bv)
               IN IF ~c.ok THEN [ok |-> FALSE, v |-> v]
                  ELSE convert_monomials(c.v, n, list, j + 1, wide)

\* a buffer is [bitsize, const, list]: const is the coefficient of the
\* constant monomial, 0 when there is none
convert_bvarith64_to_bvarray(g, b) ==
  LET n == b.bitsize
      v0 == IF b.const # 0 THEN bvarray_copy_constant64(n, b.const)
            ELSE bvarray_set_zero_bv(n)
      c == convert_monomials(v0, n, b.list, 1, FALSE)
  IN IF ~c.ok THEN [types |-> g.types, terms |-> g.terms, r |-> NULL_TERM]
     ELSE bvarray_term(g, n, c.v)

convert_bvarith_to_bvarray(g, b) ==
  LET n == b.bitsize
      v0 == IF b.const # 0 THEN bvarray_copy_constant(n, b.const)
            ELSE bvarray_set_zero_bv(n)
      c == convert_monomials(v0, n, b.list, 1, TRUE)
  IN IF ~c.ok THEN [types |-> g.types, terms |-> g.terms, r |-> NULL_TERM]
     ELSE bvarray_term(g, n, c.v)

(***************************************************************************)
(* Specification SpecBvArray: a normalized polynomial is converted         *)
(***************************************************************************)
\* two boolean terms, the bits of the bit arrays
PreludeBvArray ==
  LET g1 == yices_new_uninterpreted_term(G0, bool_id)
  IN yices_new_uninterpreted_term(g1, bool_id)

BoolVars == {pos_term(i) : i \in 2..Len(PreludeBvArray.terms)}
BitTerms == {true_term, false_term} \cup BoolVars

\* the power products: the bit arrays over BitTerms that are not constant,
\* and <<>> for a product that is not a bit array
BvProducts ==
  {bv \in [1..BvArraySize -> BitTerms] : Range(bv) \cap BoolVars # {}} \cup {<<>>}

\* the normalized polynomials that bvarith_buffer_get_term passes to the
\* conversion: nonzero coefficients, distinct products, and not a single
\* product of coefficient one
BvPolys ==
  {b \in [bitsize : {BvArraySize}, const : 0..(Pow2(BvArraySize) - 1),
          list : SeqsOf([coeff : 1..(Pow2(BvArraySize) - 1), bv : BvProducts],
                        1, MaxMonomials)] :
     /\ \A i, j \in 1..Len(b.list) : i < j => b.list[i].bv # b.list[j].bv
     /\ ~(b.const = 0 /\ Len(b.list) = 1 /\ b.list[1].coeff = 1)}

InitBvArray ==
  /\ types = PreludeBvArray.types
  /\ terms = PreludeBvArray.terms
  /\ error = PreludeBvArray.error
  /\ buffers \in {<<b>> : b \in BvPolys}
  /\ sk = NoSk
  /\ ef = init_ef_table
  /\ last = NoCall
  /\ fails = <<>>
  /\ ncalls = 0

ConvertBvarith64 ==
  /\ Idle
  /\ \E res \in {convert_bvarith64_to_bvarray(G, buffers[1])} :
       /\ types' = res.types
       /\ terms' = res.terms
       /\ last' = [NoCall EXCEPT !.op = "convert_bvarith64_to_bvarray", !.r = res.r]
  /\ UNCHANGED <<error, buffers, sk, ef, fails, ncalls>>

ConvertBvarith ==
  /\ Idle
  /\ \E res \in {convert_bvarith_to_bvarray(G, buffers[1])} :
       /\ types' = res.types
       /\ terms' = res.terms
       /\ last' = [NoCall EXCEPT !.op = "convert_bvarith_to_bvarray", !.r = res.r]
  /\ UNCHANGED <<error, buffers, sk, ef, fails, ncalls>>

NextBvArray ==
  \/ ConvertBvarith64
  \/ ConvertBvarith

SpecBvArray == InitBvArray /\ [][NextBvArray]_vars

\* the assignments of the boolean terms
BitAssignments == [BoolVars -> {0, 1}]
BitValue(s, t) == IF t = true_term THEN 1 ELSE IF t = false_term THEN 0 ELSE s[t]

RECURSIVE ArrayValue(_, _, _)
ArrayValue(s, bv, i) ==
  IF i > Len(bv) THEN 0 ELSE BitValue(s, bv[i]) * Pow2(i - 1) + ArrayValue(s, bv, i + 1)

RECURSIVE PolyValue(_, _, _)
PolyValue(s, list, j) ==
  IF j > Len(list) THEN 0
  ELSE list[j].coeff * ArrayValue(s, list[j].bv, 1) + PolyValue(s, list, j + 1)

\* bit j of monomial m once shifted: bit j - k of the array, false below k
ShiftedBit(m, j) ==
  LET k == bvconst_is_power_of_two(m.coeff, BvArraySize)
  IN IF k >= 0 /\ j >= k THEN m.bv[j - k + 1] ELSE false_term

\* all products are bit arrays, all coefficients powers of two, and no bit
\* position is covered twice
DisjointShifts(b) ==
  /\ \A m \in Range(b.list) :
        m.bv # <<>> /\ bvconst_is_power_of_two(m.coeff, BvArraySize) >= 0
  /\ \A j \in 0..(b.bitsize - 1) :
        Cardinality({0 : x \in {0} \cap (IF tst_bit64(b.const, j) THEN {0} ELSE {})}
                    \cup {i \in 1..Len(b.list) : ShiftedBit(b.list[i], j) # false_term}) <= 1

ExpectedBit(b, j) ==
  IF tst_bit64(b.const, j) THEN true_term
  ELSE IF \E m \in Range(b.list) : ShiftedBit(m, j) # false_term
       THEN ShiftedBit(CHOOSE m \in Range(b.list) : ShiftedBit(m, j) # false_term, j)
       ELSE false_term

\* C23: when the conversion produces a bit array, bit j of it is bit j of
\* the constant, or the bit of the one shifted array that covers j, or
\* false, so that the array has the value of the polynomial modulo 2^n under
\* every assignment; no array is produced when two shifted supports overlap
\* or a coefficient is not a power of two
C23_ShiftedArray ==
  last.op \in {"convert_bvarith64_to_bvarray", "convert_bvarith_to_bvarray"} =>
    LET b == buffers[1]
    IN /\ ~DisjointShifts(b) => last.r = NULL_TERM
       /\ last.r # NULL_TERM =>
            /\ term_kind(terms, last.r) = "BV_ARRAY"
            /\ \A j \in 0..(b.bitsize - 1) :
                  term_args(terms, last.r)[j + 1] = ExpectedBit(b, j)
            /\ \A s \in BitAssignments :
                  ArrayValue(s, term_args(terms, last.r), 1)
                    = (b.const + PolyValue(s, b.list, 1)) % Pow2(b.bitsize)


(***************************************************************************)
(* Specification SpecTuple: tuples are built and projected                 *)
(***************************************************************************)
\* an uninterpreted type U, two terms of type U, a term of type [U, U] and
\* one of type [U, U, U], and every projection of these two
PreludeTuple ==
  LET u == yices_new_uninterpreted_type(G0)
      a == yices_new_uninterpreted_term(u, u.r)
      b == yices_new_uninterpreted_term(a, u.r)
      t2 == yices_tuple_type(b, 2, <<u.r, u.r>>)
      x2 == yices_new_uninterpreted_term(t2, t2.r)
      t3 == yices_tuple_type(x2, 3, <<u.r, u.r, u.r>>)
      x3 == yices_new_uninterpreted_term(t3, t3.r)
      s1 == yices_select(x3, 0, x2.r)
      s2 == yices_select(s1, 1, x2.r)
      s3 == yices_select(s2, 0, x3.r)
      s4 == yices_select(s3, 1, x3.r)
  IN yices_select(s4, 2, x3.r)

InitTuple ==
  /\ types = PreludeTuple.types
  /\ terms = PreludeTuple.terms
  /\ error = PreludeTuple.error
  /\ buffers = <<>>
  /\ sk = NoSk
  /\ ef = init_ef_table
  /\ last = NoCall
  /\ fails = <<>>
  /\ ncalls = 0

\* the terms whose type is not a tuple type and not bool: the components
ComponentPool(tys, tbl) ==
  {pos_term(i) : i \in {j \in 1..Len(tbl) :
      tbl[j].type # bool_id /\ type_kind(tys, tbl[j].type) # "TUPLE_TYPE"}}

TuplePool(tys, tbl) ==
  {pos_term(i) : i \in {j \in 1..Len(tbl) : type_kind(tys, tbl[j].type) = "TUPLE_TYPE"}}

Tuple ==
  /\ Ready
  /\ \E a \in SeqsOf(ComponentPool(types, terms), 1, YICES_MAX_ARITY) :
        Do(MkCall("yices_tuple", a, 0, 0))

Select ==
  /\ Ready
  /\ \E t \in TuplePool(types, terms), index \in 0..YICES_MAX_ARITY :
        Do(MkCall("yices_select", <<>>, index, t))

NextTuple ==
  \/ Tuple
  \/ Select
  \/ Return

SpecTuple == InitTuple /\ [][NextTuple]_vars

\* the call of yices_tuple built the tuple term of its arguments
BuiltTuple(tbl, r, a) == term_kind(tbl, r) = "TUPLE_TERM" /\ term_args(tbl, r) = a

\* C24: yices_tuple returns a term that is not the tuple term of its
\* arguments only if every argument i is the projection i of that term and
\* the term has exactly n components; the result always has a tuple type of
\* n components, and its projection i is argument i
C24_Tuple ==
  (last.op = "yices_tuple" /\ last.r # NULL_TERM) =>
    LET n == Len(last.a)
        tau == term_type(terms, last.r)
    IN /\ ~BuiltTuple(terms, last.r, last.a) =>
            /\ \A i \in 0..(n - 1) :
                  /\ term_kind(terms, last.a[i + 1]) = "SELECT_TERM"
                  /\ select_term_index(terms, last.a[i + 1]) = i
                  /\ select_term_arg(terms, last.a[i + 1]) = last.r
            /\ tuple_type_arity(types, tau) = n
       /\ type_kind(types, tau) = "TUPLE_TYPE"
       /\ tuple_type_arity(types, tau) = n
       /\ \A i \in 0..(n - 1) : yices_select(G, i, last.r).r = last.a[i + 1]


(***************************************************************************)
(* Specification SpecUpdate: functions are updated and applied             *)
(***************************************************************************)
\* a scalar type of two elements with its constants, an uninterpreted term
\* of this type, and a function from this type to itself
PreludeUpdate ==
  LET g1 == yices_new_scalar_type(G0, 2)
      c0 == yices_constant(g1, g1.r, 0)
      c1 == yices_constant(c0, g1.r, 1)
      x == yices_new_uninterpreted_term(c1, g1.r)
      ft == yices_function_type(x, 1, <<g1.r>>, g1.r)
  IN yices_new_uninterpreted_term(ft, ft.r)

MaxUpdateCalls == 3

InitUpdate ==
  /\ types = PreludeUpdate.types
  /\ terms = PreludeUpdate.terms
  /\ error = PreludeUpdate.error
  /\ buffers = <<>>
  /\ sk = NoSk
  /\ ef = init_ef_table
  /\ last = NoCall
  /\ fails = <<>>
  /\ ncalls = 0

FunctionPool(tys, tbl) ==
  {pos_term(i) : i \in {j \in 1..Len(tbl) : type_kind(tys, tbl[j].type) = "FUNCTION_TYPE"}}

\* the terms of the domain
PointPool(tys, tbl) ==
  {pos_term(i) : i \in {j \in 1..Len(tbl) : type_kind(tys, tbl[j].type) = "SCALAR_TYPE"}}

\* the call c is made and returns
DoUpdate(c) ==
  /\ Idle
  /\ ncalls < MaxUpdateCalls
  /\ \E res \in {Apply(G, c)} :
        /\ types' = res.types
        /\ terms' = res.terms
        /\ error' = res.error
        /\ last' = [op |-> c.op, a |-> c.a, x |-> c.x, y |-> c.y, r |-> res.r]
  /\ ncalls' = ncalls + 1
  /\ UNCHANGED <<buffers, sk, ef, fails>>

UpdateFunction ==
  \E f \in FunctionPool(types, terms), a, v \in PointPool(types, terms) :
     DoUpdate(MkCall("yices_update", <<a>>, f, v))

ApplyUpdated ==
  \E f \in FunctionPool(types, terms), a \in PointPool(types, terms) :
     DoUpdate(MkCall("yices_application", <<a>>, f, 0))

NextUpdate ==
  \/ UpdateFunction
  \/ ApplyUpdated
  \/ Return

SpecUpdate == InitUpdate /\ [][NextUpdate]_vars


\* the interpretations: a value for every uninterpreted term of the scalar
\* type and a function for every uninterpreted function
PointValues == {0, 1}

Interpretations(tys, tbl) ==
  LET ut == UninterpretedTerms(tbl)
      fs == {t \in ut : type_kind(tys, term_type(tbl, t)) = "FUNCTION_TYPE"}
  IN {[t \in ut |-> IF t \in fs THEN F[t] ELSE V[t]] :
        F \in [ut -> [PointValues -> PointValues]], V \in [ut -> PointValues]}

\* the value of a term of SpecUpdate under interpretation I
RECURSIVE EvalTerm(_, _, _)
EvalTerm(tbl, t, I) ==
  LET k == index_kind(tbl, t)
      a == term_args(tbl, t)
  IN CASE k = "CONSTANT_TERM" -> a[1]
       [] k = "UNINTERPRETED_TERM" -> I[t]
       [] k = "UPDATE_TERM" ->
            [EvalTerm(tbl, a[1], I) EXCEPT ![EvalTerm(tbl, a[2], I)] = EvalTerm(tbl, a[3], I)]
       [] k = "APP_TERM" -> EvalTerm(tbl, a[1], I)[EvalTerm(tbl, a[2], I)]

\* the walk the claim describes: [ret, x]
RECURSIVE WalkUpdates(_, _, _)
WalkUpdates(g, fun, arg) ==
  IF term_kind(g.terms, fun) # "UPDATE_TERM" THEN [ret |-> FALSE, x |-> fun]
  ELSE IF update_arg(g.terms, fun) = arg
  THEN [ret |-> TRUE, x |-> update_newval(g.terms, fun)]
  ELSE IF disequal_term_arrays(g, Len(arg), update_arg(g.terms, fun), arg)
  THEN WalkUpdates(g, update_fun(g.terms, fun), arg)
  ELSE [ret |-> FALSE, x |-> fun]

\* C25: an application walks the function while it is an update: it returns
\* the stored value when the stored arguments are the applied ones, goes on
\* with the updated function when the two argument tuples are trivially
\* disequal, and otherwise builds the application of the current function;
\* the result has the value of the application of the original function
C25_Application ==
  (last.op = "yices_application" /\ last.r # NULL_TERM) =>
    LET w == WalkUpdates(G, last.x, last.a)
    IN /\ IF w.ret THEN last.r = w.x
          ELSE /\ term_kind(terms, last.r) = "APP_TERM"
               /\ term_args(terms, last.r) = <<w.x>> \o last.a
       /\ \A I \in Interpretations(types, terms) :
             EvalTerm(terms, last.r, I)
               = EvalTerm(terms, last.x, I)[EvalTerm(terms, last.a[1], I)]

\* an application went through an outer update with disequal arguments and
\* returned the value stored by the inner update
C25_Witness ==
  /\ last.op = "yices_application"
  /\ term_kind(terms, last.x) = "UPDATE_TERM"
  /\ disequal_term_arrays(G, 1, update_arg(terms, last.x), last.a)
  /\ term_kind(terms, update_fun(terms, last.x)) = "UPDATE_TERM"
  /\ last.r = update_newval(terms, update_fun(terms, last.x))

\* C26: an update of an update at the same arguments returns the handle of
\* the update of the inner function
C26_NestedUpdate ==
  (/\ last.op = "yices_update"
   /\ last.r # NULL_TERM
   /\ term_kind(terms, last.x) = "UPDATE_TERM"
   /\ update_arg(terms, last.x) = last.a) =>
     last.r = yices_update(G, update_fun(terms, last.x), Len(last.a), last.a, last.y).r


(***************************************************************************)
(* Specification SpecIte: if-then-else of integer polynomials              *)
(***************************************************************************)
\* two integer terms x and y, a boolean term c, and the polynomials
\* 0, 2, 3, 4, 6, 2x, 2y, 3y, 2x + 4, 2y + 6, -2x, x + 2y, 4x
PreludeIte ==
  LET x == yices_new_uninterpreted_term(G0, int_id)
      y == yices_new_uninterpreted_term(x, int_id)
      c == yices_new_uninterpreted_term(y, bool_id)
      k0 == yices_arith_constant(c, 0)
      k2 == yices_arith_constant(k0, 2)
      k3 == yices_arith_constant(k2, 3)
      k4 == yices_arith_constant(k3, 4)
      k6 == yices_arith_constant(k4, 6)
      x2 == yices_mul(k6, k2.r, x.r)
      y2 == yices_mul(x2, k2.r, y.r)
      y3 == yices_mul(y2, k3.r, y.r)
      p == yices_add(y3, x2.r, k4.r)
      q == yices_add(p, y2.r, k6.r)
      n == yices_neg(q, x2.r)
      m == yices_add(n, x.r, y2.r)
  IN yices_mul(m, k4.r, x.r)

InitIte ==
  /\ types = PreludeIte.types
  /\ terms = PreludeIte.terms
  /\ error = PreludeIte.error
  /\ buffers = <<>>
  /\ sk = NoSk
  /\ ef = init_ef_table
  /\ last = NoCall
  /\ fails = <<>>
  /\ ncalls = 0

IntegerPool(tbl) == {pos_term(i) : i \in {j \in 1..Len(tbl) : tbl[j].type = int_id}}

\* the conditions: c, its negation and true_term
ConditionPool(tbl) ==
  {t \in 2..(2 * Len(tbl) + 1) :
     ~bad_term(tbl, t) /\ tbl[index_of(t)].type = bool_id /\ t # false_term}

IntegerIte ==
  /\ Ready
  /\ \E cond \in ConditionPool(terms), t, e \in IntegerPool(terms) :
        Do(MkCall("yices_ite", <<cond, t, e>>, 0, 0))

NextIte ==
  \/ IntegerIte
  \/ Return

SpecIte == InitIte /\ [][NextIte]_vars

\* the call is an if-then-else of two non-zero integer polynomials under a
\* condition that is not a constant
IsPolynomialIte ==
  /\ last.op = "yices_ite"
  /\ last.r # NULL_TERM
  /\ last.a[1] \notin {true_term, false_term}
  /\ term_kind(terms, last.a[2]) = "ARITH_TERM"
  /\ term_kind(terms, last.a[3]) = "ARITH_TERM"
  /\ arith_term_desc(terms, last.a[2]) # {}
  /\ arith_term_desc(terms, last.a[3]) # {}

\* the greatest integer that divides every coefficient of p and of q
CommonFactor(p, q) ==
  LET cs == {q_abs(m.coeff) : m \in p \cup q}
      top == CHOOSE k \in cs : \A j \in cs : j <= k
  IN CHOOSE a \in 1..top :
       /\ \A k \in cs : k % a = 0
       /\ \A b \in 1..top : (\A k \in cs : k % b = 0) => b <= a

\* the if-then-else node of the call: condition c, or its argument and the
\* branches exchanged when c is a negation
PlainIte(c, t, e) ==
  IF is_neg_term(c) THEN Desc("ITE_TERM", int_id, <<not_term_arg(c), e, t>>)
  ELSE Desc("ITE_TERM", int_id, <<c, t, e>>)

\* r is the polynomial a * s where s is the if-then-else of p / a and q / a
LiftedIte(tbl, r, c, p, q, a) ==
  /\ term_kind(tbl, r) = "ARITH_TERM"
  /\ \E s \in 1..Len(tbl) :
        /\ arith_term_desc(tbl, r) = {Mono(a, <<pos_term(s)>>)}
        /\ tbl[s].kind = "ITE_TERM"
        /\ \E t, e \in 1..Len(tbl) :
              /\ tbl[s] = PlainIte(c, pos_term(t), pos_term(e))
              /\ tbl[t].kind = "ARITH_TERM" /\ tbl[e].kind = "ARITH_TERM"
              /\ \A m \in p : CoeffOf(arith_term_desc(tbl, pos_term(t)), m.pp) * a = m.coeff
              /\ \A m \in q : CoeffOf(arith_term_desc(tbl, pos_term(e)), m.pp) * a = m.coeff
              /\ Cardinality(arith_term_desc(tbl, pos_term(t))) = Cardinality(p)
              /\ Cardinality(arith_term_desc(tbl, pos_term(e))) = Cardinality(q)

IteFactoring ==
  LET p == arith_term_desc(terms, last.a[2])
      q == arith_term_desc(terms, last.a[3])
      a == CommonFactor(p, q)
  IN IF a > 1 THEN LiftedIte(terms, last.r, last.a[1], p, q, a)
     ELSE terms[index_of(last.r)] = PlainIte(last.a[1], last.a[2], last.a[3])

\* C27 as stated: for every non-constant condition and non-zero integer
\* polynomials p and q with a the gcd of all their coefficients, ite(c, p, q)
\* is a * ite(c, p/a, q/a) when a > 1 and the plain ite when a = 1
C27_AllBranches == IsPolynomialIte => IteFactoring

\* C27: the same for p and q that are different terms
C27_IteFactoring == (IsPolynomialIte /\ last.a[2] # last.a[3]) => IteFactoring

\* ite(c, 2x + 4, 2y + 6) has been built as 2 * ite(c, x + 2, y + 3)
C27_Witness ==
  /\ IsPolynomialIte
  /\ last.a[2] # last.a[3]
  /\ CommonFactor(arith_term_desc(terms, last.a[2]), arith_term_desc(terms, last.a[3])) = 2
  /\ Cardinality(arith_term_desc(terms, last.a[2])) = 2
  /\ Cardinality(arith_term_desc(terms, last.a[3])) = 2
  /\ term_kind(terms, last.r) = "ARITH_TERM"


\* C28: on boolean terms, yices_xor and yices_neq return the handle that
\* yices_not returns for the result of yices_iff on the same arguments
C28_XorIsNotIff ==
  (/\ last.op \in {"yices_xor", "yices_neq"}
   /\ last.r # NULL_TERM
   /\ is_boolean_term(terms, last.x)) =>
     LET e == yices_iff(G, last.x, last.y)
     IN last.r = yices_not([G EXCEPT !.terms = e.terms], e.r).r


(***************************************************************************)
(* Specification SpecSkKinds: the skolemizer on formulas whose composite   *)
(* subterms are not equalities, disjunctions, if-then-else or applications *)
(***************************************************************************)
\* an uninterpreted type U and four terms of type U
PreludeSkKinds ==
  LET u == yices_new_uninterpreted_type(G0)
      a == yices_new_uninterpreted_term(u, u.r)
      b == yices_new_uninterpreted_term(a, u.r)
      c == yices_new_uninterpreted_term(b, u.r)
  IN yices_new_uninterpreted_term(c, u.r)

InitSkKinds ==
  /\ types = PreludeSkKinds.types
  /\ terms = PreludeSkKinds.terms
  /\ error = PreludeSkKinds.error
  /\ buffers = <<>>
  /\ sk = NoSk
  /\ ef = init_ef_table
  /\ last = NoCall
  /\ fails = <<>>
  /\ ncalls = 0

KindDistinct ==
  /\ Building
  /\ \E a \in SeqsOf(UninterpretedTerms(terms), 3, 3) : Do(MkCall("yices_distinct", a, 0, 0))

KindNot ==
  /\ Building
  /\ \E t \in SkPool(terms) : Do(MkCall("yices_not", <<>>, t, 0))

\* ef_skolemize(sk, t) on the formula built last, in a debug or in a
\* release build
SkolemizeBuilt ==
  /\ sk.inited
  /\ last.op # "ef_skolemize"
  /\ \E nd \in BOOLEAN, t \in {Formula} :
       \E v \in {ef_skolemize(SkolemizerState(nd), t)} :
          /\ types' = v.S.types
          /\ terms' = v.S.terms
          /\ error' = v.S.error
          /\ sk' = [sk EXCEPT !.uvars = v.S.uvars, !.existentials = v.S.existentials,
                               !.num_skolem = v.S.num_skolem, !.halted = v.S.halted,
                               !.clash = v.S.clash, !.calls = v.S.calls,
                               !.bodies = v.S.bodies, !.runs = @ + 1,
                               !.names = v.S.names]
          /\ last' = [op |-> "ef_skolemize", a |-> sk.existentials, x |-> t,
                      y |-> 0, r |-> v.r]
  /\ UNCHANGED <<buffers, fails, ncalls, ef>>

NextSkKinds ==
  \/ KindDistinct
  \/ KindNot
  \/ SkReturn
  \/ InitEfSkolemize
  \/ SkolemizeBuilt

SpecSkKinds == InitSkKinds /\ [][NextSkKinds]_vars

\* C29: on a well-formed boolean term, whatever the kinds of its composite
\* subterms, ef_skolemize_term fails no assertion (the default branch of
\* ef_update_composite is not reached) and does not return NULL_TERM
C29_NeverNull ==
  last.op = "ef_skolemize" => (~sk.halted /\ last.r # NULL_TERM)


(***************************************************************************)
(* Specification SpecNnf: the skolemizer on quantifier-free formulas       *)
(***************************************************************************)
\* three boolean atoms
PreludeNnf ==
  LET p == yices_new_uninterpreted_term(G0, bool_id)
      q == yices_new_uninterpreted_term(p, bool_id)
  IN yices_new_uninterpreted_term(q, bool_id)

InitNnf ==
  /\ types = PreludeNnf.types
  /\ terms = PreludeNnf.terms
  /\ error = PreludeNnf.error
  /\ buffers = <<>>
  /\ sk = NoSk
  /\ ef = init_ef_table
  /\ last = NoCall
  /\ fails = <<>>
  /\ ncalls = 0

NnfNot ==
  /\ Building
  /\ \E t \in SkPool(terms) : Do(MkCall("yices_not", <<>>, t, 0))

NnfOr ==
  /\ Building
  /\ \E a \in SeqsOf(SkPool(terms), 2, 2) : Do(MkCall("yices_or", a, 0, 0))

NnfIff ==
  /\ Building
  /\ \E x \in SkPool(terms), y \in SkPool(terms) : Do(MkCall("yices_iff", <<>>, x, y))

NnfIte ==
  /\ Building
  /\ \E a \in SeqsOf(SkPool(terms), 3, 3) : Do(MkCall("yices_ite", a, 0, 0))

NextNnf ==
  \/ NnfNot
  \/ NnfOr
  \/ NnfIff
  \/ NnfIte
  \/ SkReturn
  \/ InitEfSkolemize
  \/ SkolemizeBuilt

SpecNnf == InitNnf /\ [][NextNnf]_vars

\* C30: on a quantifier-free formula over boolean atoms, under each setting
\* of flatten_ite and flatten_iff, ef_skolemize returns a term that has the
\* truth value of the formula under every assignment, leaves the
\* existentials map and the stack of universal variables as they were and
\* creates no Skolem function
C30_PureNnf ==
  last.op = "ef_skolemize" =>
    /\ ~sk.halted
    /\ last.r # NULL_TERM
    /\ \A val \in Assignments(terms) : Eval(terms, last.r, val) = Eval(terms, last.x, val)
    /\ sk.existentials = last.a
    /\ sk.uvars = <<>>
    /\ sk.num_skolem = 0
    /\ sk.names = <<>>

\* a negated equivalence has been flattened into a disjunction of two
\* conjunctions
C30_Witness ==
  /\ last.op = "ef_skolemize"
  /\ sk.flatten_iff
  /\ is_neg_term(last.x)
  /\ index_kind(terms, last.x) = "EQ_TERM"
  /\ index_kind(terms, last.r) = "OR_TERM"
  /\ \A val \in Assignments(terms) : Eval(terms, last.r, val) = Eval(terms, last.x, val)

====
